---- MODULE Spec2Model ----
(***************************************************************************)
(* A model of the neon_match tile-matching game: the board functions of    *)
(* src/utils/gameLogic.ts and the turn machinery of src/App.tsx.           *)
(*                                                                         *)
(* A board is a function  row -> (col -> Cell)  over 0..GRID_ROWS-1 and    *)
(* 0..GRID_COLS-1, a Cell is the record of src/unnamed/part_000.           *)
(* Math.random is modelled by an explicit argument (rnd) that the actions  *)
(* draw from a bounded family; a generated identifier is fresh with        *)
(* respect to the board it is generated for.                               *)
(***************************************************************************)
EXTENDS Integers, Sequences, FiniteSets, TLC

VARIABLES
    \* ---- React state of App (src/App.tsx 32-54) ----
    board, score, isProcessing, gamePhase, currentLevel, movesLeft,
    level1GemCount, inventory, activeTool, combo, comboTimer,
    \* ---- the last committed render: what the handlers' closures read ----
    view,
    \* ---- async chains waiting on an animation delay ----
    tasks,
    \* ---- bookkeeping of the model (player actions taken, last step) ----
    turns, last,
    \* ---- harness of the pure functions: input, operation applied, result ----
    inBoard, inMatched, fnOp, fnOut

vars == <<board, score, isProcessing, gamePhase, currentLevel, movesLeft,
          level1GemCount, inventory, activeTool, combo, comboTimer,
          view, tasks, turns, last, inBoard, inMatched, fnOp, fnOut>>

appVars == <<board, score, isProcessing, gamePhase, currentLevel, movesLeft,
             level1GemCount, inventory, activeTool, combo, comboTimer>>

fnVars == <<inBoard, inMatched, fnOp, fnOut>>

----------------------------------------------------------------------------
(* Program constants (src/unnamed/part_000)                                *)

GRID_ROWS == 8
GRID_COLS == 8

GEM_TYPES_ARRAY ==
    <<"RED", "BLUE", "GREEN", "YELLOW", "PURPLE", "ORANGE", "DIAMOND", "STAR",
      "RAINBOW">>

Rows == 0 .. (GRID_ROWS - 1)
Cols == 0 .. (GRID_COLS - 1)

SpecialType == {"NONE", "ROW_BLAST", "COL_BLAST", "AREA_BLAST", "RAINBOW"}
CellStatus == {"IDLE", "SWAPPING", "MATCHED", "DROPPING", "EMPTY", "CREATED"}

\* The Cell record (interface Cell).
MkCell(id, type, special, status, r, c, vr, vc) ==
    [id |-> id, type |-> type, special |-> special, status |-> status,
     row |-> r, col |-> c, visualRow |-> vr, visualCol |-> vc]

\* Helpers over boards and sequences.
BoardIds(b) == { b[r][c].id : r \in Rows, c \in Cols }

CellById(b, id) ==
    LET p == CHOOSE q \in Rows \X Cols : b[q[1]][q[2]].id = id
    IN  b[p[1]][p[2]]

SeqRange(s) == { s[i] : i \in 1 .. Len(s) }

SeqIds(s) == { s[i].id : i \in 1 .. Len(s) }

\* The element of a set of one element: binds a stage of a computation to
\* its value.
The(S) == CHOOSE x \in S : TRUE

Min2(a, b) == IF a < b THEN a ELSE b
Max2(a, b) == IF a > b THEN a ELSE b

----------------------------------------------------------------------------
(* findMatches (src/utils/gameLogic.ts 82-121)                             *)

\* The cells one start (r, c) of the horizontal loop adds: the three of the
\* window and the while loop's extension to the right.
HorizontalFrom(b, r, c) ==
    LET type == b[r][c].type IN
    IF b[r][c + 1].type = type /\ b[r][c + 2].type = type
    THEN {b[r][c].id, b[r][c + 1].id, b[r][c + 2].id}
         \cup { b[r][k].id : k \in { k \in (c + 3) .. (GRID_COLS - 1) :
                                      \A j \in (c + 3) .. k : b[r][j].type = type } }
    ELSE {}

VerticalFrom(b, r, c) ==
    LET type == b[r][c].type IN
    IF b[r + 1][c].type = type /\ b[r + 2][c].type = type
    THEN {b[r][c].id, b[r + 1][c].id, b[r + 2][c].id}
         \cup { b[k][c].id : k \in { k \in (r + 3) .. (GRID_ROWS - 1) :
                                      \A j \in (r + 3) .. k : b[j][c].type = type } }
    ELSE {}

HorizontalMatches(b) ==
    UNION { HorizontalFrom(b, r, c) : r \in Rows, c \in 0 .. (GRID_COLS - 3) }

VerticalMatchesShort(b) ==
    UNION { VerticalFrom(b, r, c) : c \in Cols, r \in 0 .. (GRID_ROWS - 4) }

VerticalMatches(b) ==
    UNION { VerticalFrom(b, r, c) : c \in Cols, r \in 0 .. (GRID_ROWS - 3) }

findMatches(b) == HorizontalMatches(b) \cup VerticalMatches(b)

----------------------------------------------------------------------------
(* getConnectedGroups (src/utils/gameLogic.ts 124-164)                     *)

\* The four neighbour positions, in the order of the code, read from the
\* cell's own row and col.
Neighbors(current) ==
    << <<current.row - 1, current.col>>, <<current.row + 1, current.col>>,
       <<current.row, current.col - 1>>, <<current.row, current.col + 1>> >>

InBounds(r, c) == r >= 0 /\ r < GRID_ROWS /\ c >= 0 /\ c < GRID_COLS

\* Whether the BFS takes a neighbour: matched, not visited, type of current.
TakesNeighborAnyType(neighbor, current, matchedIds, visited) ==
    neighbor.id \in matchedIds /\ neighbor.id \notin visited

TakesNeighbor(neighbor, current, matchedIds, visited) ==
    /\ neighbor.id \in matchedIds
    /\ neighbor.id \notin visited
    /\ neighbor.type = current.type

\* The for loop over the neighbours of current: st = [queue, visited].
RECURSIVE VisitNeighbors(_, _, _, _, _)
VisitNeighbors(b, matchedIds, current, i, st) ==
    IF i > 4 THEN st
    ELSE LET n == Neighbors(current)[i] IN
         IF InBounds(n[1], n[2])
            /\ TakesNeighbor(b[n[1]][n[2]], current, matchedIds, st.visited)
         THEN VisitNeighbors(b, matchedIds, current, i + 1,
                  [queue |-> Append(st.queue, b[n[1]][n[2]]),
                   visited |-> st.visited \cup {b[n[1]][n[2]].id}])
         ELSE VisitNeighbors(b, matchedIds, current, i + 1, st)

\* The while loop of one BFS: returns [group, visited].
RECURSIVE Bfs(_, _, _, _, _)
Bfs(b, matchedIds, queue, group, visited) ==
    IF queue = <<>> THEN [group |-> group, visited |-> visited]
    ELSE LET current == Head(queue)
             st == VisitNeighbors(b, matchedIds, current, 1,
                       [queue |-> Tail(queue), visited |-> visited])
         IN  Bfs(b, matchedIds, st.queue, Append(group, current), st.visited)

\* The row-major loop over the seeds, idx = r * GRID_COLS + c.
RECURSIVE GroupsFrom(_, _, _, _, _)
GroupsFrom(b, matchedIds, idx, visited, groups) ==
    IF idx >= GRID_ROWS * GRID_COLS THEN groups
    ELSE LET cell == b[idx \div GRID_COLS][idx % GRID_COLS] IN
         IF cell.id \in matchedIds /\ cell.id \notin visited
         THEN LET res == Bfs(b, matchedIds, <<cell>>, <<>>, visited \cup {cell.id})
              IN  GroupsFrom(b, matchedIds, idx + 1, res.visited,
                             Append(groups, res.group))
         ELSE GroupsFrom(b, matchedIds, idx + 1, visited, groups)

getConnectedGroups(b, matchedIds) == GroupsFrom(b, matchedIds, 0, {}, <<>>)

----------------------------------------------------------------------------
(* classifyMatchGroup (src/utils/gameLogic.ts 167-191)                     *)

GroupRows(group) == { group[i].row : i \in 1 .. Len(group) }
GroupCols(group) == { group[i].col : i \in 1 .. Len(group) }

classifyMatchGroupRowFirst(group) ==
    IF Len(group) < 4 THEN "NONE"
    ELSE IF Len(group) >= 5
         THEN IF Cardinality(GroupRows(group)) = 1 \/ Cardinality(GroupCols(group)) = 1
              THEN "RAINBOW" ELSE "AREA_BLAST"
         ELSE IF Cardinality(GroupRows(group)) = 1 THEN "ROW_BLAST"
              ELSE IF Cardinality(GroupCols(group)) = 1 THEN "COL_BLAST"
                   ELSE "NONE"

classifyMatchGroup(group) ==
    IF Len(group) < 4 THEN "NONE"
    ELSE IF Len(group) >= 5
         THEN IF Cardinality(GroupRows(group)) = 1 \/ Cardinality(GroupCols(group)) = 1
              THEN "RAINBOW" ELSE "AREA_BLAST"
         ELSE IF Cardinality(GroupRows(group)) = 1 THEN "COL_BLAST"
              ELSE IF Cardinality(GroupCols(group)) = 1 THEN "ROW_BLAST"
                   ELSE "NONE"

----------------------------------------------------------------------------
(* getBombAffectedCells, getSpecialBlastTargets                            *)
(* (src/utils/gameLogic.ts 195-232)                                        *)

\* A double loop "for r = r0..r1, for c = c0..c1" as the sequence of the
\* positions it visits.
RECURSIVE RectPositions(_, _, _, _, _, _)
RectPositions(r, c, r1, c0, c1, acc) ==
    IF r > r1 THEN acc
    ELSE IF c > c1 THEN RectPositions(r + 1, c0, r1, c0, c1, acc)
         ELSE RectPositions(r, c + 1, r1, c0, c1, Append(acc, <<r, c>>))

\* The positions of the 3x3 loop around (row, col) that pass the bounds test.
AreaPositions(row, col) ==
    SelectSeq(RectPositions(row - 1, col - 1, row + 1, col - 1, col + 1, <<>>),
              LAMBDA p : InBounds(p[1], p[2]))

getBombAffectedCellsCross(b, center) ==
    LET ps == SelectSeq(AreaPositions(center.row, center.col),
                        LAMBDA p : p[1] = center.row \/ p[2] = center.col)
    IN  [i \in 1 .. Len(ps) |-> b[ps[i][1]][ps[i][2]].id]

getBombAffectedCells(b, center) ==
    LET ps == AreaPositions(center.row, center.col)
    IN  [i \in 1 .. Len(ps) |-> b[ps[i][1]][ps[i][2]].id]

getSpecialBlastTargetsSwapped(b, cell, rnd5) ==
    IF cell.special = "ROW_BLAST"
    THEN [i \in 1 .. GRID_ROWS |-> b[i - 1][cell.col]]
    ELSE IF cell.special = "COL_BLAST"
    THEN [i \in 1 .. GRID_COLS |-> b[cell.row][i - 1]]
    ELSE IF cell.special = "AREA_BLAST"
    THEN LET ps == AreaPositions(cell.row, cell.col)
         IN  [i \in 1 .. Len(ps) |-> b[ps[i][1]][ps[i][2]]]
    ELSE <<>>

\* rnd5 stands for the five Math.random position draws of the RAINBOW
\* fallback: a sequence of five positions.
getSpecialBlastTargets(b, cell, rnd5) ==
    IF cell.special = "ROW_BLAST"
    THEN [i \in 1 .. GRID_COLS |-> b[cell.row][i - 1]]
    ELSE IF cell.special = "COL_BLAST"
    THEN [i \in 1 .. GRID_ROWS |-> b[i - 1][cell.col]]
    ELSE IF cell.special = "AREA_BLAST"
    THEN LET ps == AreaPositions(cell.row, cell.col)
         IN  [i \in 1 .. Len(ps) |-> b[ps[i][1]][ps[i][2]]]
    ELSE IF cell.special = "RAINBOW"
    THEN [i \in 1 .. 5 |-> b[rnd5[i][1]][rnd5[i][2]]]
    ELSE <<>>

----------------------------------------------------------------------------
(* Identifiers.  The code builds an identifier from Math.random(); the     *)
(* model draws the identifiers of generated cells from IdPool, in          *)
(* ascending order among those the board at hand does not use.             *)

IdPool == 1 .. (2 * GRID_ROWS * GRID_COLS)

\* The identifiers of lo .. hi outside used, ascending.
RECURSIVE FreeIn(_, _, _)
FreeIn(used, lo, hi) ==
    IF lo = hi THEN (IF lo \in used THEN <<>> ELSE <<lo>>)
    ELSE FreeIn(used, lo, (lo + hi) \div 2) \o FreeIn(used, ((lo + hi) \div 2) + 1, hi)

FreshIdsFromOne(used) == FreeIn({}, 1, 2 * GRID_ROWS * GRID_COLS)

\* The identifiers generated next to a board that uses the identifiers used:
\* the k-th generated cell receives FreshIds(used)[k].
FreshIds(used) == FreeIn(used, 1, 2 * GRID_ROWS * GRID_COLS)

\* The function f with its values enumerated (the same function; it saves
\* the model checker from evaluating an expression once per use).
Explicit(f) == f @@ <<>>

ExplicitBoard(b) == Explicit([r \in Rows |-> Explicit(b[r])])

\* The identifier of a placeholder cell (`temp-...`): never one of IdPool.
TempId == 0

----------------------------------------------------------------------------
(* applyGravity (src/utils/gameLogic.ts 235-286)                           *)

RandomTypeFirstOfAll(allowedTypes, rnd, r, c) ==
    IF (rnd.a + r + c) % 3 = 0 THEN "RAINBOW"
    ELSE allowedTypes[(((rnd.a * r) + (rnd.b * c) + rnd.s) % Len(allowedTypes)) + 1]

\* allowedTypes[Math.floor(Math.random() * allowedTypes.length)]: the draw
\* for the cell generated at (r, c) under the random source rnd.
RandomType(allowedTypes, rnd, r, c) ==
    allowedTypes[(((rnd.a * r) + (rnd.b * c) + rnd.s) % Len(allowedTypes)) + 1]

IsEmptyStatusMatchedOnly(status) == status = "MATCHED"

\* The test of line 242.
IsEmptyStatus(status) == status = "MATCHED" \/ status = "EMPTY"

\* The bottom-up loop over one column (lines 241-266): col is the column of
\* newBoard as a function of the row, r the loop index.
RECURSIVE GravityColumn(_, _, _, _)
GravityColumn(col, c, r, emptySlots) ==
    IF r < 0 THEN [col |-> col, emptySlots |-> emptySlots]
    ELSE IF IsEmptyStatus(col[r].status)
    THEN GravityColumn([col EXCEPT ![r].status = "EMPTY"], c, r - 1, emptySlots + 1)
    ELSE IF emptySlots > 0
    THEN GravityColumn(
            [col EXCEPT
               ![r + emptySlots] = [col[r] EXCEPT !.row = r + emptySlots,
                                                  !.status = "DROPPING",
                                                  !.visualRow = r],
               ![r] = MkCell(TempId, "RED", "NONE", "EMPTY", r, c, r, c)],
            c, r - 1, emptySlots)
    ELSE GravityColumn(col, c, r - 1, emptySlots)

RECURSIVE SumTo(_, _)
SumTo(f, c) == IF c < 0 THEN 0 ELSE f[c] + SumTo(f, c - 1)

applyGravityNoRefill(b, allowedTypes, rnd) ==
    LET done == Explicit([c \in Cols |->
                    GravityColumn([r \in Rows |-> b[r][c]], c, GRID_ROWS - 1, 0)])
    IN  [r \in Rows |-> [c \in { k \in Cols : r >= done[k].emptySlots } |-> done[c].col[r]]]

\* newBoard of applyGravity; rnd is the random source of the refill.
applyGravity(b, allowedTypes, rnd) ==
    LET done == Explicit([c \in Cols |->
                    GravityColumn([r \in Rows |-> b[r][c]], c, GRID_ROWS - 1, 0)])
        empties == Explicit([c \in Cols |-> done[c].emptySlots])
        before == Explicit([c \in Cols |-> SumTo(empties, c - 1)])
        fresh == FreshIds(BoardIds(b))
    IN  ExplicitBoard([r \in Rows |-> [c \in Cols |->
            IF r < empties[c]
            THEN LET type == RandomType(allowedTypes, rnd, r, c) IN
                 MkCell(fresh[before[c] + r + 1], type,
                        IF type = "RAINBOW" THEN "RAINBOW" ELSE "NONE",
                        "DROPPING", r, c, r - empties[c], c)
            ELSE done[c].col[r]]])

----------------------------------------------------------------------------
(* getLevelConfig, getGemTypesForLevel (src/utils/gameLogic.ts 4-49)       *)

LEVELS ==
    << [level |-> 1, targetScore |-> 1000, moves |-> 10],
       [level |-> 2, targetScore |-> 3000, moves |-> 15],
       [level |-> 3, targetScore |-> 6000, moves |-> 20],
       [level |-> 4, targetScore |-> 12000, moves |-> 25],
       [level |-> 5, targetScore |-> 25000, moves |-> 30] >>

getLevelConfigFromFive(level) ==
    IF \E i \in 1 .. Len(LEVELS) : LEVELS[i].level = level
    THEN LEVELS[CHOOSE i \in 1 .. Len(LEVELS) : LEVELS[i].level = level]
    ELSE [level |-> level,
          targetScore |-> 25000 + (10000 * (level - 5)),
          moves |-> 30 + ((level - 5) * 2)]

getLevelConfig(level) ==
    IF \E i \in 1 .. Len(LEVELS) : LEVELS[i].level = level
    THEN LEVELS[CHOOSE i \in 1 .. Len(LEVELS) : LEVELS[i].level = level]
    ELSE [level |-> level,
          targetScore |-> 25000 + (10000 * (level - 4)),
          moves |-> 30 + ((level - 4) * 2)]

getGemTypesForLevelNoUpperClamp(level, customCount) ==
    IF level = 1 /\ customCount # 0
    THEN SubSeq(GEM_TYPES_ARRAY, 1, Max2(3, Min2(Len(GEM_TYPES_ARRAY), customCount)))
    ELSE IF level = 1 THEN SubSeq(GEM_TYPES_ARRAY, 1, 5)
    ELSE IF level = 2 THEN SubSeq(GEM_TYPES_ARRAY, 1, 6)
    ELSE IF level = 3 THEN SubSeq(GEM_TYPES_ARRAY, 1, 7)
    ELSE SubSeq(GEM_TYPES_ARRAY, 1, 8)

\* customCount = 0 stands for an absent (undefined) argument: both are falsy.
getGemTypesForLevel(level, customCount) ==
    IF level = 1 /\ customCount # 0
    THEN SubSeq(GEM_TYPES_ARRAY, 1, Max2(3, Min2(8, customCount)))
    ELSE IF level = 1 THEN <<"RED", "BLUE", "GREEN", "YELLOW", "PURPLE">>
    ELSE IF level = 2 THEN <<"RED", "BLUE", "GREEN", "YELLOW", "PURPLE", "ORANGE">>
    ELSE IF level = 3
    THEN <<"RED", "BLUE", "GREEN", "YELLOW", "PURPLE", "ORANGE", "DIAMOND">>
    ELSE <<"RED", "BLUE", "GREEN", "YELLOW", "PURPLE", "ORANGE", "DIAMOND", "STAR">>

----------------------------------------------------------------------------
(* createInitialBoard (src/utils/gameLogic.ts 51-79)                       *)
(* rnd.t[r + 1][c + 1] is the first index Math.random draws for slot       *)
(* (r, c); a rejected draw is followed by the next index (cyclically), so  *)
(* the do-while ends at the first type the test of lines 61-62 accepts.    *)
(* rnd.used are the identifiers the generated ones differ from.            *)

RejectedLeftOnly(acc, r, c, type) ==
    c >= 2 /\ acc[(r * GRID_COLS) + c] = type /\ acc[(r * GRID_COLS) + c - 1] = type

\* The test of the do-while: type would complete a run of 3 to the left or
\* above; acc is the sequence of the types placed so far, row-major.
Rejected(acc, r, c, type) ==
    \/ (c >= 2 /\ acc[(r * GRID_COLS) + c] = type /\ acc[(r * GRID_COLS) + c - 1] = type)
    \/ (r >= 2 /\ acc[((r - 1) * GRID_COLS) + c + 1] = type
               /\ acc[((r - 2) * GRID_COLS) + c + 1] = type)

\* The number of redraws at slot (r, c): the least k whose draw is accepted.
\* (With three or more allowed types at most two are rejected.)
Redraws(allowedTypes, rnd, acc, r, c) ==
    CHOOSE k \in 0 .. Len(allowedTypes) :
        /\ k < Len(allowedTypes)
           => ~Rejected(acc, r, c, allowedTypes[((rnd.t[r + 1][c + 1] + k) % Len(allowedTypes)) + 1])
        /\ \A j \in 0 .. (k - 1) :
              Rejected(acc, r, c, allowedTypes[((rnd.t[r + 1][c + 1] + j) % Len(allowedTypes)) + 1])

\* The inner loop (lines 55-75): the types of row r from column c on, added
\* to acc, the types placed so far.
RECURSIVE InitialRow(_, _, _, _, _)
InitialRow(allowedTypes, rnd, r, c, acc) ==
    IF c >= GRID_COLS THEN acc
    ELSE LET k == Redraws(allowedTypes, rnd, acc, r, c)
             next == Append(acc, allowedTypes[((rnd.t[r + 1][c + 1] + k) % Len(allowedTypes)) + 1])
         IN  \* (the test is always true: it has next evaluated here, not
             \* at the end of the loops)
             IF Len(next) > 0 THEN InitialRow(allowedTypes, rnd, r, c + 1, next) ELSE acc

\* The outer loop (lines 53-77): the types of the board, row after row.
RECURSIVE InitialTypes(_, _, _, _)
InitialTypes(allowedTypes, rnd, r, acc) ==
    IF r >= GRID_ROWS THEN acc
    ELSE InitialTypes(allowedTypes, rnd, r + 1, InitialRow(allowedTypes, rnd, r, 0, acc))

createInitialBoard(allowedTypes, rnd) ==
    LET types == InitialTypes(allowedTypes, rnd, 0, <<>>)
        fresh == FreshIds(rnd.used)
    IN  ExplicitBoard([r \in Rows |-> [c \in Cols |->
            LET type == types[(r * GRID_COLS) + c + 1] IN
            MkCell(fresh[(r * GRID_COLS) + c + 1], type,
                   IF type = "RAINBOW" THEN "RAINBOW" ELSE "NONE",
                   "IDLE", r, c, r, c)]])

\* The values the draw of line 60 can give: an element of allowedTypes, or
\* undefined (allowedTypes[0] of an empty array).
Drawable(allowedTypes) ==
    IF Len(allowedTypes) = 0 THEN {"undefined"}
    ELSE { allowedTypes[i] : i \in 1 .. Len(allowedTypes) }

\* How a call of createInitialBoard ends.  The function has no throw
\* statement and reads only cells it has pushed, so it either returns or
\* stays in the do-while of lines 59-64, which it does at the first slot
\* where the test rejects every value the draw can give.  acc is the
\* sequence of the types placed so far, i the number of the slot.
RECURSIVE InitialOutcome(_, _, _, _)
InitialOutcome(allowedTypes, rnd, i, acc) ==
    IF i >= GRID_ROWS * GRID_COLS THEN "returns"
    ELSE LET r == i \div GRID_COLS
             c == i % GRID_COLS
             ok == { t \in Drawable(allowedTypes) : ~Rejected(acc, r, c, t) }
         IN  IF ok = {} THEN "diverges"
             ELSE IF Len(allowedTypes) = 0
             THEN InitialOutcome(allowedTypes, rnd, i + 1, Append(acc, "undefined"))
             ELSE LET n == Len(allowedTypes)
                      k == CHOOSE j \in 0 .. (n - 1) :
                              /\ allowedTypes[((rnd.t[r + 1][c + 1] + j) % n) + 1] \in ok
                              /\ \A h \in 0 .. (j - 1) :
                                    allowedTypes[((rnd.t[r + 1][c + 1] + h) % n) + 1] \notin ok
                  IN  InitialOutcome(allowedTypes, rnd, i + 1,
                          Append(acc, allowedTypes[((rnd.t[r + 1][c + 1] + k) % n) + 1]))

createInitialBoardOutcome(allowedTypes, rnd) == InitialOutcome(allowedTypes, rnd, 0, <<>>)

----------------------------------------------------------------------------
(* resolveBoard, the part of one pass that runs before its first await     *)
(* (src/App.tsx 217-376).                                                  *)

MAX_COMBO_TIME == 100

\* A position that stands for an absent lastSwapTarget (undefined).
NoTarget == [row |-> 0 - 1, col |-> 0 - 1]

\* The cells of the board in the order of its rows, then columns.
BoardCells(b) ==
    [i \in 1 .. (GRID_ROWS * GRID_COLS) |-> b[(i - 1) \div GRID_COLS][(i - 1) % GRID_COLS]]

\* Lines 224-226: the cells already marked MATCHED join the detected set.
MarkedIds(b) ==
    { b[p[1]][p[2]].id : p \in { q \in Rows \X Cols : b[q[1]][q[2]].status = "MATCHED" } }

DetectedIdsMarkedOnly(b) == MarkedIds(b)

DetectedIds(b) == findMatches(b) \cup MarkedIds(b)

\* The five position draws of the n-th special the pass expands, when that
\* special is a RAINBOW; rnd is the seed of the pass.
RainbowDraws(rnd, n) ==
    [i \in 1 .. 5 |-> << ((rnd * 3) + (2 * i) + n) % GRID_ROWS, ((rnd * 5) + (3 * i) + (2 * n)) % GRID_COLS >>]

\* targets.forEach of lines 246-254: the ids of the targets that are not in
\* the matched set yet, each once, in the order of the targets.
RECURSIVE NewTargets(_, _, _, _)
NewTargets(targets, i, matchedIds, acc) ==
    IF i > Len(targets) THEN acc
    ELSE IF targets[i].id \in matchedIds \/ targets[i].id \in SeqRange(acc)
         THEN NewTargets(targets, i + 1, matchedIds, acc)
         ELSE NewTargets(targets, i + 1, matchedIds, Append(acc, targets[i].id))

\* The identifiers of the cells of the board that carry a special.
SpecialIds(b) ==
    { b[p[1]][p[2]].id : p \in { q \in Rows \X Cols : b[q[1]][q[2]].special # "NONE" } }

RECURSIVE ExpandMatchesNoChain(_, _, _, _, _, _, _)
ExpandMatchesNoChain(b, specials, queue, matchedIds, processedSpecials, rnd, n) ==
    LET live == { i \in 1 .. Len(queue) :
                    queue[i] \in specials /\ queue[i] \notin processedSpecials }
    IN  IF live = {} THEN matchedIds
        ELSE LET i == CHOOSE x \in live : \A y \in live : x <= y
                 cell == CellById(b, queue[i])
                 targets == getSpecialBlastTargets(b, cell, RainbowDraws(rnd, n))
                 fresh == NewTargets(targets, 1, matchedIds, <<>>)
             IN  ExpandMatchesNoChain(b, specials, SubSeq(queue, i + 1, Len(queue)),
                                      matchedIds \cup SeqRange(fresh),
                                      processedSpecials \cup {cell.id}, rnd, n + 1)

\* The while loop of lines 234-258.  The queue holds identifiers; entries
\* that are no special, or a special already processed, are shifted off
\* without effect, so a step of the recursion goes to the first entry that
\* expands.  specials is SpecialIds(b), n counts the specials expanded.
RECURSIVE ExpandMatches(_, _, _, _, _, _, _)
ExpandMatches(b, specials, queue, matchedIds, processedSpecials, rnd, n) ==
    LET live == { i \in 1 .. Len(queue) :
                    queue[i] \in specials /\ queue[i] \notin processedSpecials }
    IN  IF live = {} THEN matchedIds
        ELSE LET i == CHOOSE x \in live : \A y \in live : x <= y
                 cell == CellById(b, queue[i])
                 targets == getSpecialBlastTargets(b, cell, RainbowDraws(rnd, n))
                 fresh == NewTargets(targets, 1, matchedIds, <<>>)
             IN  ExpandMatches(b, specials, SubSeq(queue, i + 1, Len(queue)) \o fresh,
                               matchedIds \cup SeqRange(fresh),
                               processedSpecials \cup {cell.id}, rnd, n + 1)

\* The same loop: the identifiers of the specials it expands (line 245, one
\* call of getSpecialBlastTargets each), in order.
RECURSIVE Detonations(_, _, _, _, _, _, _)
Detonations(b, specials, queue, matchedIds, processedSpecials, rnd, n) ==
    LET live == { i \in 1 .. Len(queue) :
                    queue[i] \in specials /\ queue[i] \notin processedSpecials }
    IN  IF live = {} THEN <<>>
        ELSE LET i == CHOOSE x \in live : \A y \in live : x <= y
                 cell == CellById(b, queue[i])
                 targets == getSpecialBlastTargets(b, cell, RainbowDraws(rnd, n))
                 fresh == NewTargets(targets, 1, matchedIds, <<>>)
             IN  <<cell.id>> \o Detonations(b, specials, SubSeq(queue, i + 1, Len(queue)) \o fresh,
                                            matchedIds \cup SeqRange(fresh),
                                            processedSpecials \cup {cell.id}, rnd, n + 1)

\* Array.from(matchedIds) of line 231.  The set is listed in the order of
\* the board; the order only decides which draws a RAINBOW receives.
InitialQueue(b, ids) ==
    LET cells == SelectSeq(BoardCells(b), LAMBDA cell : cell.id \in ids)
    IN  [i \in 1 .. Len(cells) |-> cells[i].id]

\* Lines 221-258: the matched set of a pass.
MatchedIdsOfPass(b, rnd) ==
    LET detected == DetectedIds(b)
        specials == SpecialIds(b)
    IN  IF specials = {} THEN detected
        ELSE ExpandMatches(b, specials, InitialQueue(b, detected), detected, {}, rnd, 0)

\* Lines 274-292.  levelBaseMultiplier = (level + 1) / 2, comboMultiplier =
\* (10 + currentCombo * (level + 4)) / 10 and sizeMultiplier is 1, 3/2 or 3,
\* so the product under Math.floor is the quotient below.  The code
\* multiplies IEEE doubles from left to right; DoubleShortfall lists, for
\* levels up to 3 and combos up to 5, where that product falls below the
\* exact value and Math.floor therefore yields one less.
SizeMultiplierTwiceFlat(size) == IF size >= 5 THEN 6 ELSE 2

SizeMultiplierTwice(size) == IF size >= 5 THEN 6 ELSE IF size = 4 THEN 3 ELSE 2

DoubleShortfall(level, currentCombo, n, inGroup) ==
    IF level = 2 /\ currentCombo = 3
    THEN IF \/ n \in {6, 11, 12, 22, 23, 24, 43, 44, 45, 46, 47, 48}
            \/ (n = 3 /\ ~inGroup)
         THEN 1 ELSE 0
    ELSE IF level = 3 /\ currentCombo = 3 THEN 1 ELSE 0

GroupScore(size, currentCombo, level) ==
    ((size * SizeMultiplierTwice(size) * (10 + (currentCombo * (level + 4))) * (level + 1)) \div 2)
        - DoubleShortfall(level, currentCombo, size, TRUE)

\* Line 326.
DebrisScore(blastDebrisCount, currentCombo, level) ==
    (blastDebrisCount * (level + 1) * (10 + (currentCombo * (level + 4))))
        - DoubleShortfall(level, currentCombo, blastDebrisCount, FALSE)

RECURSIVE SumSeq(_, _)
SumSeq(s, i) == IF i > Len(s) THEN 0 ELSE s[i] + SumSeq(s, i + 1)

\* Lines 308-317: the cell of the group that turns into the special.
Candidate(group, lastSwapTarget) ==
    IF lastSwapTarget # NoTarget
    THEN LET hits == { i \in 1 .. Len(group) :
                          group[i].row = lastSwapTarget.row /\ group[i].col = lastSwapTarget.col }
         IN  IF hits # {} THEN group[CHOOSE i \in hits : \A j \in hits : i <= j]
             ELSE group[1]
    ELSE group[(Len(group) \div 2) + 1]

\* newSpecialGems after the forEach of lines 282-321: for an identifier,
\* the special of the last group that chose it, or "NONE".
NewSpecialOf(groups, lastSwapTarget, id) ==
    LET idx == { i \in 1 .. Len(groups) :
                    /\ classifyMatchGroup(groups[i]) # "NONE"
                    /\ Candidate(groups[i], lastSwapTarget).id = id }
    IN  IF idx = {} THEN "NONE"
        ELSE classifyMatchGroup(groups[CHOOSE i \in idx : \A j \in idx : j <= i])

\* The specials a pass expands, in order.
DetonatedOfPass(b, rnd) ==
    LET detected == DetectedIds(b)
    IN  Detonations(b, SpecialIds(b), InitialQueue(b, detected), detected, {}, rnd, 0)

\* Lines 266-327: the points of the pass.
TurnPoints(b, matchedIds, currentCombo, level) ==
    LET groups == getConnectedGroups(b, findMatches(b))
        sizes == [i \in 1 .. Len(groups) |-> Len(groups[i])]
        scores == [i \in 1 .. Len(groups) |-> GroupScore(Len(groups[i]), currentCombo, level)]
        blastDebrisCount == Cardinality(matchedIds) - SumSeq(sizes, 1)
    IN  SumSeq(scores, 1)
          + (IF blastDebrisCount > 0 THEN DebrisScore(blastDebrisCount, currentCombo, level) ELSE 0)

MatchedBoardMatchedFirst(b, matchedIds, lastSwapTarget) ==
    LET groups == getConnectedGroups(b, findMatches(b))
        special == Explicit([id \in BoardIds(b) |-> NewSpecialOf(groups, lastSwapTarget, id)])
    IN  ExplicitBoard([r \in Rows |-> [c \in Cols |->
            LET cell == b[r][c] IN
            IF cell.id \in matchedIds THEN [cell EXCEPT !.status = "MATCHED"]
            ELSE IF special[cell.id] # "NONE"
            THEN [cell EXCEPT !.special = special[cell.id], !.status = "CREATED"]
            ELSE cell]])

\* Lines 340-374.
MatchedBoard(b, matchedIds, lastSwapTarget) ==
    LET groups == getConnectedGroups(b, findMatches(b))
        special == Explicit([id \in BoardIds(b) |-> NewSpecialOf(groups, lastSwapTarget, id)])
    IN  ExplicitBoard([r \in Rows |-> [c \in Cols |->
            LET cell == b[r][c] IN
            IF special[cell.id] # "NONE"
            THEN [cell EXCEPT !.special = special[cell.id],
                              !.status = "CREATED",
                              !.type = IF special[cell.id] = "RAINBOW" THEN "RAINBOW" ELSE cell.type]
            ELSE IF cell.id \in matchedIds THEN [cell EXCEPT !.status = "MATCHED"]
            ELSE cell]])

SettledBoardStatusOnly(b) ==
    ExplicitBoard([r \in Rows |-> [c \in Cols |-> [b[r][c] EXCEPT !.status = "IDLE"]]])

\* Lines 389-394.
SettledBoard(b) ==
    ExplicitBoard([r \in Rows |-> [c \in Cols |->
        [b[r][c] EXCEPT !.status = "IDLE", !.visualRow = b[r][c].row, !.visualCol = b[r][c].col]]])

----------------------------------------------------------------------------
(* handleSwap, activateBomb: the boards they build (src/App.tsx 408-594).  *)

\* An exchange of the two slots that leaves the cells' own row and col.
SwapBoardKeepsCoordinates(b, pos1, pos2) ==
    LET cell1 == b[pos1.row][pos1.col]
        cell2 == b[pos2.row][pos2.col]
    IN  [b EXCEPT ![pos1.row][pos1.col] =
                      [cell2 EXCEPT !.visualRow = pos1.row, !.visualCol = pos1.col,
                                    !.status = "SWAPPING"],
                  ![pos2.row][pos2.col] =
                      [cell1 EXCEPT !.visualRow = pos2.row, !.visualCol = pos2.col,
                                    !.status = "SWAPPING"]]

\* Lines 414-420: tempBoard.
SwapBoard(b, pos1, pos2) ==
    LET cell1 == b[pos1.row][pos1.col]
        cell2 == b[pos2.row][pos2.col]
    IN  [b EXCEPT ![pos1.row][pos1.col] =
                      [cell2 EXCEPT !.row = pos1.row, !.col = pos1.col,
                                    !.visualRow = pos1.row, !.visualCol = pos1.col,
                                    !.status = "SWAPPING"],
                  ![pos2.row][pos2.col] =
                      [cell1 EXCEPT !.row = pos2.row, !.col = pos2.col,
                                    !.visualRow = pos2.row, !.visualCol = pos2.col,
                                    !.status = "SWAPPING"]]

RevertBoardInPlace(tempBoard, pos1, pos2) ==
    [tempBoard EXCEPT ![pos1.row][pos1.col].status = "IDLE",
                      ![pos2.row][pos2.col].status = "IDLE"]

\* Lines 547-561: revertBoard.
RevertBoard(tempBoard, pos1, pos2) ==
    LET cellAtPos1 == tempBoard[pos1.row][pos1.col]
        cellAtPos2 == tempBoard[pos2.row][pos2.col]
    IN  [tempBoard EXCEPT ![pos1.row][pos1.col] =
                      [cellAtPos2 EXCEPT !.row = pos1.row, !.col = pos1.col,
                                         !.visualRow = pos1.row, !.visualCol = pos1.col,
                                         !.status = "IDLE"],
                  ![pos2.row][pos2.col] =
                      [cellAtPos1 EXCEPT !.row = pos2.row, !.col = pos2.col,
                                         !.visualRow = pos2.row, !.visualCol = pos2.col,
                                         !.status = "IDLE"]]

MarkMatched(b, ids) ==
    ExplicitBoard([r \in Rows |-> [c \in Cols |->
        IF b[r][c].id \in ids THEN [b[r][c] EXCEPT !.status = "MATCHED"] ELSE b[r][c]]])

BlastIdsPlain(b, cell1, cell2, pos2) ==
    {cell1.id, cell2.id}
      \cup SeqIds(getSpecialBlastTargets(b, cell1, <<>>))
      \cup SeqIds(getSpecialBlastTargets(b, cell2, <<>>))

\* Lines 462-492: blastIds of case C.  b is the board of the render the
\* handler was created in (before the swap); cell1 and cell2 carry the
\* positions they had on it.
BlastIds(b, cell1, cell2, pos2) ==
    LET area == cell1.special = "AREA_BLAST" /\ cell2.special = "AREA_BLAST"
        mixed == (cell1.special = "AREA_BLAST") # (cell2.special = "AREA_BLAST")
    IN  {cell1.id, cell2.id}
          \cup SeqIds(getSpecialBlastTargets(b, cell1, <<>>))
          \cup SeqIds(getSpecialBlastTargets(b, cell2, <<>>))
          \cup (IF area
                THEN { b[r][c].id : r \in { x \in Rows : x >= pos2.row - 2 /\ x <= pos2.row + 2 },
                                    c \in { y \in Cols : y >= pos2.col - 2 /\ y <= pos2.col + 2 } }
                ELSE IF mixed
                THEN { b[r][c].id : r \in { x \in Rows : x >= pos2.row - 1 /\ x <= pos2.row + 1 },
                                    c \in Cols }
                       \cup { b[r][c].id : r \in Rows,
                                           c \in { y \in Cols : y >= pos2.col - 1 /\ y <= pos2.col + 1 } }
                ELSE {})

ComboBoardNoNuke(b, tempBoard, cell1, cell2, pos2) ==
    IF cell1.special = "RAINBOW" \/ cell2.special = "RAINBOW"
    THEN LET rainbowCell == IF cell1.special = "RAINBOW" THEN cell1 ELSE cell2
             otherCell == IF cell1.special = "RAINBOW" THEN cell2 ELSE cell1
         IN  ExplicitBoard([r \in Rows |-> [c \in Cols |->
                 LET x == tempBoard[r][c] IN
                 IF x.id = rainbowCell.id THEN [x EXCEPT !.status = "MATCHED"]
                 ELSE IF x.type = otherCell.type
                 THEN [x EXCEPT !.special = otherCell.special, !.status = "MATCHED"]
                 ELSE x]])
    ELSE MarkMatched(tempBoard, BlastIds(b, cell1, cell2, pos2))

\* A marking of the two swapped cells alone.
RainbowBoardSwappedOnly(tempBoard, cell1, cell2) ==
    ExplicitBoard([r \in Rows |-> [c \in Cols |->
        LET x == tempBoard[r][c] IN
        IF x.id = cell1.id \/ x.id = cell2.id THEN [x EXCEPT !.status = "MATCHED"] ELSE x]])

\* Lines 514-526: activeBoard of a swap of one RAINBOW with a normal cell.
RainbowBoard(tempBoard, cell1, cell2) ==
    LET rainbowCell == IF cell1.special = "RAINBOW" THEN cell1 ELSE cell2
        otherCell == IF cell1.special = "RAINBOW" THEN cell2 ELSE cell1
    IN  ExplicitBoard([r \in Rows |-> [c \in Cols |->
            LET x == tempBoard[r][c] IN
            IF x.type = otherCell.type \/ x.id = rainbowCell.id \/ x.id = otherCell.id
            THEN [x EXCEPT !.status = "MATCHED"] ELSE x]])

ComboBoardNoUpgrade(b, tempBoard, cell1, cell2, pos2) ==
    IF cell1.special = "RAINBOW" /\ cell2.special = "RAINBOW"
    THEN ExplicitBoard([r \in Rows |-> [c \in Cols |-> [tempBoard[r][c] EXCEPT !.status = "MATCHED"]]])
    ELSE IF cell1.special = "RAINBOW" \/ cell2.special = "RAINBOW"
    THEN RainbowBoard(tempBoard, cell1, cell2)
    ELSE MarkMatched(tempBoard, BlastIds(b, cell1, cell2, pos2))

\* Lines 437-501: activeBoard when both swapped cells are special.
ComboBoard(b, tempBoard, cell1, cell2, pos2) ==
    IF cell1.special = "RAINBOW" /\ cell2.special = "RAINBOW"
    THEN ExplicitBoard([r \in Rows |-> [c \in Cols |-> [tempBoard[r][c] EXCEPT !.status = "MATCHED"]]])
    ELSE IF cell1.special = "RAINBOW" \/ cell2.special = "RAINBOW"
    THEN LET rainbowCell == IF cell1.special = "RAINBOW" THEN cell1 ELSE cell2
             otherCell == IF cell1.special = "RAINBOW" THEN cell2 ELSE cell1
         IN  ExplicitBoard([r \in Rows |-> [c \in Cols |->
                 LET x == tempBoard[r][c] IN
                 IF x.id = rainbowCell.id THEN [x EXCEPT !.status = "MATCHED"]
                 ELSE IF x.type = otherCell.type
                 THEN [x EXCEPT !.special = otherCell.special, !.status = "MATCHED"]
                 ELSE x]])
    ELSE MarkMatched(tempBoard, BlastIds(b, cell1, cell2, pos2))

\* Lines 580-587: tempBoard of activateBomb.
BombBoard(b, centerPos) == MarkMatched(b, SeqRange(getBombAffectedCells(b, centerPos)))

----------------------------------------------------------------------------
(* Bounds of the model and the bounded families the inputs are drawn from  *)

\* Number of sampled input boards of the pure-function harness.
NumBoards == 60
\* Number of matched-identifier sets tried per input board (0 .. NumMatchSets).
NumMatchSets == 2
\* The random source of a refill: the cell generated at (r, c) takes the type
\* of index (stride * r) + c + shift.  With stride 0 every cell generated in
\* a column is of one type.
MaxStride == 1
MaxShift == 0
\* Handler calls of the player (level starts, swaps, bombs, reshuffles,
\* tool selections, returns to the menu, slider changes) per behaviour, and
\* continuations waiting at one time.
MaxTurns == 3
MaxTasks == 2
\* The cells the player acts on: the first NumCells of PlayerCells.
NumCells == 1
\* The random sources of createInitialBoard: Template(1 .. NumTemplates).
NumTemplates == 2
\* The slider of the START screen is moved within 3 .. MaxGemCount.
MaxGemCount == 3
\* The score is tracked up to MaxScore and the combo up to MaxCombo.
MaxScore == 1000
MaxCombo == 3
\* Seeds of the position draws of an expanded RAINBOW: 0 .. MaxDraw.
MaxDraw == 0
\* The detection passes of a chain are counted up to MaxPass.
MaxPass == 2
\* The states of a level under way that behaviours of SpecMid start from:
\* MidState(1 .. NumMid).  MidState(k) counts as MidState(k).turns handler
\* calls: two more calls are explored from the first of them (the calls
\* that overlap) and from the ninth and tenth (the last move of a level
\* and the start of the next), one more from the others.
NumMid == 14

Refills == { [a |-> k, b |-> 1, s |-> sh] : k \in 0 .. MaxStride, sh \in 0 .. MaxShift }

\* A reproducible pseudo-random number in 0..100 for sample s, slot (r, c)
\* and purpose k.
HashAt(s, r, c, k) ==
    ((s * s * 7) + (s * (r + 1) * (c + 2) * 13) + ((r + 1) * (r + 3) * 5)
       + ((c + 1) * (c + 1) * (c + 2) * 11) + (k * (r + (2 * c) + 1) * 17)
       + (s * r * 3)) % 101

\* The token types sample s is drawn over (the wildcard type included for
\* every third sample).
SampleTypes(s) ==
    IF s % 3 = 0 THEN <<"RED", "BLUE">>
    ELSE IF s % 3 = 1 THEN <<"RED", "BLUE", "GREEN">>
    ELSE <<"RED", "RAINBOW">>

SampleStatus == <<"IDLE", "MATCHED", "IDLE", "EMPTY", "CREATED", "IDLE", "DROPPING", "SWAPPING">>
SampleSpecial == <<"NONE", "ROW_BLAST", "NONE", "COL_BLAST", "NONE", "AREA_BLAST", "NONE", "NONE">>

\* Sample board s: well formed (row, col are the slot, identifiers distinct),
\* with types, statuses and special kinds spread by HashAt.
InputBoard(s) ==
    [r \in Rows |-> [c \in Cols |->
        LET type == SampleTypes(s)[(HashAt(s, r, c, 0) % Len(SampleTypes(s))) + 1] IN
        MkCell(((((r * GRID_COLS + c) * 5) + s) % (GRID_ROWS * GRID_COLS)) + 1,
               type,
               IF type = "RAINBOW" THEN "RAINBOW"
               ELSE SampleSpecial[(HashAt(s, r, c, 1) % 8) + 1],
               SampleStatus[(HashAt(s, r, c, 2) % 8) + 1],
               r, c, r, c)]]

\* Matched sets for a board: k = 0 its natural matches, k = 1 every cell,
\* k >= 2 a pseudo-random subset.
MatchedSet(s, k) ==
    IF k = 0 THEN findMatches(InputBoard(s))
    ELSE IF k = 1 THEN BoardIds(InputBoard(s))
    ELSE { InputBoard(s)[p[1]][p[2]].id :
              p \in { q \in Rows \X Cols : HashAt(s, q[1], q[2], k + 1) % 3 # 0 } }

\* The first draws of createInitialBoard, one index per slot (taken modulo
\* the number of allowed types).  With the five types of level 1 the first
\* template yields a board on which moving (6,3) down completes a row of
\* four and moving (2,4) right a row of three; the second one a board on
\* which these moves complete a row of five and an L of five; the third
\* one a board on which exchanging (4,3) and (4,4) completes two columns of
\* five, side by side.
Template(s) ==
    IF s = 1
    THEN << <<0, 2, 4, 1, 0, 2, 2, 4>>,
            <<3, 1, 4, 2, 4, 1, 4, 1>>,
            <<3, 1, 0, 4, 1, 3, 1, 1>>,
            <<4, 0, 2, 4, 0, 3, 0, 0>>,
            <<2, 4, 0, 2, 3, 0, 4, 0>>,
            <<0, 1, 1, 3, 4, 4, 2, 4>>,
            <<4, 1, 4, 0, 1, 3, 4, 0>>,
            <<1, 0, 0, 2, 0, 1, 4, 4>> >>
    ELSE IF s = 2
    THEN << <<0, 1, 0, 2, 2, 1, 2, 0>>,
            <<3, 3, 4, 0, 2, 1, 3, 2>>,
            <<0, 2, 0, 0, 1, 3, 1, 1>>,
            <<2, 1, 1, 2, 3, 4, 2, 1>>,
            <<2, 3, 0, 3, 4, 4, 1, 0>>,
            <<0, 3, 3, 4, 1, 2, 3, 0>>,
            <<4, 1, 1, 0, 3, 3, 2, 2>>,
            <<2, 0, 0, 2, 0, 0, 2, 2>> >>
    ELSE IF s = 3
    THEN << <<0, 4, 1, 1, 4, 4, 2, 2>>,
            <<0, 2, 3, 3, 2, 0, 3, 3>>,
            <<2, 0, 3, 0, 1, 2, 0, 4>>,
            <<2, 3, 1, 0, 1, 3, 2, 4>>,
            <<1, 3, 4, 1, 0, 0, 1, 2>>,
            <<4, 4, 3, 0, 1, 4, 2, 4>>,
            <<0, 3, 3, 0, 1, 2, 3, 4>>,
            <<3, 0, 2, 1, 4, 0, 3, 1>> >>
    ELSE [r \in 1 .. GRID_ROWS |-> [c \in 1 .. GRID_COLS |-> HashAt(s, r - 1, c - 1, 3)]]

\* The first draws of a board on which the exchange of (6,3) with (5,3)
\* completes a row of four through (6,3): Template(1) with another row 6.
AnchorTemplate == [Template(1) EXCEPT ![7] = <<4, 3, 3, 0, 3, 1, 4, 0>>]

\* The first draws of a board on which the exchange of (6,3) with (5,3)
\* completes a row of three through (6,3).
ThreeTemplate == [Template(1) EXCEPT ![7] = <<4, 3, 3, 0, 1, 3, 4, 0>>]

\* The first draws of a board on which the exchange of (6,3) with (5,3)
\* completes a row of three in row 5, from (5,1) to (5,3).
UpperTemplate == [Template(1) EXCEPT ![7] = <<4, 1, 4, 1, 1, 3, 4, 0>>]

\* The first draws of a board on which (6,3), once a RAINBOW, stands in a
\* gap of row 6 that the cell below it fills to a row of four.
GapTemplate == [Template(1) EXCEPT ![7] = <<4, 2, 2, 0, 2, 3, 4, 0>>]

PlayerCells ==
    << [row |-> 6, col |-> 3], [row |-> 2, col |-> 4], [row |-> 0, col |-> 0],
       [row |-> 7, col |-> 7], [row |-> 4, col |-> 4] >>

----------------------------------------------------------------------------
(* State after construction (src/App.tsx 32-54)                            *)

AppInit ==
    /\ board = <<>>
    /\ score = 0
    /\ isProcessing = FALSE
    /\ gamePhase = "START"
    /\ currentLevel = 1
    /\ movesLeft = 0
    /\ level1GemCount = 5
    /\ inventory = [BOMB |-> 2, REFRESH |-> 2]
    /\ activeTool = "null"
    /\ combo = 0
    /\ comboTimer = 0

----------------------------------------------------------------------------
(* Harness of the pure functions: Init draws an input, each action applies *)
(* one function of gameLogic.ts to it.                                     *)

FnInit ==
    /\ AppInit
    /\ view = <<>>
    /\ tasks = <<>>
    /\ turns = 0
    /\ last = "init"
    /\ \E s \in 1 .. NumBoards :
          /\ inBoard = InputBoard(s)
          /\ \E k \in 0 .. NumMatchSets : inMatched = MatchedSet(s, k)
    /\ fnOp = "none"
    /\ fnOut = <<>>

FnFindMatches ==
    /\ fnOp = "none"
    /\ fnOp' = "findMatches"
    /\ fnOut' = findMatches(inBoard)
    /\ UNCHANGED <<appVars, view, tasks, turns, last, inBoard, inMatched>>

FnConnectedGroups ==
    /\ fnOp = "none"
    /\ fnOp' = "getConnectedGroups"
    /\ fnOut' = getConnectedGroups(inBoard, inMatched)
    /\ UNCHANGED <<appVars, view, tasks, turns, last, inBoard, inMatched>>

\* classifyMatchGroup applied to every group of the input.
FnClassify ==
    /\ fnOp = "none"
    /\ fnOp' = "classifyMatchGroup"
    /\ fnOut' = LET groups == getConnectedGroups(inBoard, inMatched)
                IN  [i \in 1 .. Len(groups) |->
                        [group |-> groups[i], special |-> classifyMatchGroup(groups[i])]]
    /\ UNCHANGED <<appVars, view, tasks, turns, last, inBoard, inMatched>>

\* The allowed types of the refill: the ordinary types of the level-1 default.
FnAllowedTypes == SubSeq(GEM_TYPES_ARRAY, 1, 3)

\* What applyGravity copies of its argument before it writes: line 236 maps
\* every row to a new array and every cell to a new object.
GravityCopyRows == "rows"

GravityCopy == "cells"

\* The kinds of object the result of applyGravity shares with its argument.
GravityShared ==
    IF GravityCopy = "cells" THEN {}
    ELSE IF GravityCopy = "rows" THEN {"cell"}
    ELSE {"board", "row", "cell"}

\* The argument of applyGravity as the call leaves it.  The slot writes go
\* to the row arrays of newBoard and the write of line 244 to a cell object
\* of newBoard; they reach the argument only through shared objects.
InputAfterGravity(b, allowedTypes, rnd) ==
    IF "row" \in GravityShared THEN applyGravity(b, allowedTypes, rnd)
    ELSE IF "cell" \in GravityShared
    THEN [r \in Rows |-> [c \in Cols |->
             IF IsEmptyStatus(b[r][c].status) THEN [b[r][c] EXCEPT !.status = "EMPTY"]
             ELSE b[r][c]]]
    ELSE b

FnGravity ==
    /\ fnOp = "none"
    /\ \E rnd \in Refills :
          /\ fnOp' = "applyGravity"
          /\ fnOut' = applyGravity(inBoard, FnAllowedTypes, rnd)
          /\ inBoard' = InputAfterGravity(inBoard, FnAllowedTypes, rnd)
    /\ UNCHANGED <<appVars, view, tasks, turns, last, inMatched>>

\* The positions the blast functions of this harness are called at: a
\* corner, an edge and an inner position.
FnPositions == { <<0, 0>>, <<GRID_ROWS - 1, 3>>, <<4, 2>> }

\* The five draws of the RAINBOW fallback of getSpecialBlastTargets.
FnRnd5 == << <<0, 0>>, <<1, 2>>, <<3, 4>>, <<5, 6>>, <<7, 7>> >>

\* getSpecialBlastTargets(board, cell) for a cell of kind k at a position of
\* ps; the function has no write to board or cell.
FnBlastTargets(ps) ==
    /\ fnOp = "none"
    /\ \E p \in ps, k \in SpecialType :
          /\ fnOp' = "getSpecialBlastTargets"
          /\ fnOut' = [center |-> [row |-> p[1], col |-> p[2]], special |-> k,
                       out |-> getSpecialBlastTargets(inBoard,
                                   [inBoard[p[1]][p[2]] EXCEPT !.special = k], FnRnd5)]
    /\ UNCHANGED <<appVars, view, tasks, turns, last, inBoard, inMatched>>

\* getBombAffectedCells(board, center); the function has no write to board.
FnBombCells(ps) ==
    /\ fnOp = "none"
    /\ \E p \in ps :
          /\ fnOp' = "getBombAffectedCells"
          /\ fnOut' = [center |-> [row |-> p[1], col |-> p[2]],
                       out |-> getBombAffectedCells(inBoard, [row |-> p[1], col |-> p[2]])]
    /\ UNCHANGED <<appVars, view, tasks, turns, last, inBoard, inMatched>>

FnNext ==
    \/ FnFindMatches \/ FnConnectedGroups \/ FnClassify \/ FnGravity
    \/ FnBlastTargets(FnPositions) \/ FnBombCells(FnPositions)

SpecFn == FnInit /\ [][FnNext]_vars

----------------------------------------------------------------------------
(* Harness of the functions of gameLogic.ts that take a position, a level  *)
(* or a set of types: Init draws a board, each action calls one function   *)
(* on arguments of its own.                                                *)

\* Number of input boards of this harness.
NumArgBoards == 2
\* Levels 1 .. MaxLevel are looked up.
MaxLevel == 12
\* The count override of getGemTypesForLevel is drawn from -NegCount .. MaxCount.
NegCount == 2
MaxCount == 10
\* Random sources of createInitialBoard: 0 .. NumSeeds.
NumSeeds == 5

AllPositions == Rows \X Cols

\* The first draws of createInitialBoard for seed s; with seed 0 every first
\* draw is the first allowed type.
ArgSeed(s) ==
    IF s = 0 THEN [r \in 1 .. GRID_ROWS |-> [c \in 1 .. GRID_COLS |-> 0]] ELSE Template(s)

ArgInit ==
    /\ AppInit
    /\ view = <<>>
    /\ tasks = <<>>
    /\ turns = 0
    /\ last = "init"
    /\ \E s \in 1 .. NumArgBoards : inBoard = InputBoard(s)
    /\ inMatched = {}
    /\ fnOp = "none"
    /\ fnOut = <<>>

FnLevelConfig ==
    /\ fnOp = "none"
    /\ \E level \in 1 .. MaxLevel :
          /\ fnOp' = "getLevelConfig"
          /\ fnOut' = [level |-> level, out |-> getLevelConfig(level)]
    /\ UNCHANGED <<appVars, view, tasks, turns, last, inBoard, inMatched>>

\* getGemTypesForLevel(level, customCount) with the count given (n) or left out.
FnGemTypes ==
    /\ fnOp = "none"
    /\ \E level \in 1 .. MaxLevel, given \in BOOLEAN, n \in (0 - NegCount) .. MaxCount :
          /\ fnOp' = "getGemTypesForLevel"
          /\ fnOut' = [level |-> level, given |-> given, n |-> IF given THEN n ELSE 0,
                       out |-> getGemTypesForLevel(level, IF given THEN n ELSE 0)]
    /\ UNCHANGED <<appVars, view, tasks, turns, last, inBoard, inMatched>>

\* createInitialBoard(allowedTypes) with the first n ordinary types; out is
\* the board when the call returns.
FnCreateInitialBoard ==
    /\ fnOp = "none"
    /\ \E n \in 0 .. 8, s \in 0 .. NumSeeds :
          LET allowedTypes == SubSeq(GEM_TYPES_ARRAY, 1, n)
              rnd == [t |-> ArgSeed(s), used |-> {}]
              outcome == createInitialBoardOutcome(allowedTypes, rnd)
          IN  /\ fnOp' = "createInitialBoard"
              /\ fnOut' = [allowedTypes |-> allowedTypes, outcome |-> outcome,
                           out |-> IF outcome = "returns"
                                   THEN createInitialBoard(allowedTypes, rnd) ELSE <<>>]
    /\ UNCHANGED <<appVars, view, tasks, turns, last, inBoard, inMatched>>

ArgNext ==
    \/ FnBlastTargets(AllPositions) \/ FnBombCells(AllPositions)
    \/ FnLevelConfig \/ FnGemTypes \/ FnCreateInitialBoard

SpecArg == ArgInit /\ [][ArgNext]_vars

----------------------------------------------------------------------------
(* Claims about the pure functions, checked under SpecFn                   *)

\* A cell lies in a horizontal (vertical) run: a window of at least three
\* consecutive cells of its row (column), all of its type, contains it.
InHorizontalRun(b, r, c) ==
    \E lo \in Cols, hi \in Cols :
        /\ lo <= c /\ c <= hi /\ hi - lo >= 2
        /\ \A j \in lo .. hi : b[r][j].type = b[r][c].type

InVerticalRun(b, r, c) ==
    \E lo \in Rows, hi \in Rows :
        /\ lo <= r /\ r <= hi /\ hi - lo >= 2
        /\ \A j \in lo .. hi : b[j][c].type = b[r][c].type

RunCellIds(b) ==
    { b[p[1]][p[2]].id :
        p \in { q \in Rows \X Cols :
                  InHorizontalRun(b, q[1], q[2]) \/ InVerticalRun(b, q[1], q[2]) } }

\* C1: findMatches returns exactly the identifiers of the cells that lie in a
\* horizontal or vertical run of 3 or more cells of one type, whatever the
\* status or special kind of the cells.
C1_FindMatchesExactlyRuns ==
    fnOp = "findMatches" => fnOut = RunCellIds(inBoard)

\* Witness of C1: findMatches was applied to a board with a run of at least 5
\* cells, all returned, a returned cell that is special and not IDLE, and a
\* cell that is not returned.
C1_Witness ==
    /\ fnOp = "findMatches"
    /\ \E r \in Rows, lo \in Cols :
          /\ lo + 4 < GRID_COLS
          /\ \A j \in lo .. (lo + 4) :
                inBoard[r][j].type = inBoard[r][lo].type /\ inBoard[r][j].id \in fnOut
    /\ \E r \in Rows, c \in Cols :
          /\ inBoard[r][c].id \in fnOut
          /\ inBoard[r][c].status = "MATCHED"
          /\ inBoard[r][c].special # "NONE"
    /\ \E r \in Rows, c \in Cols : inBoard[r][c].id \notin fnOut

\* The places <<g, i>> of a list of groups.
GroupPlaces(groups) ==
    { p \in (1 .. Len(groups)) \X (1 .. GRID_ROWS * GRID_COLS) : p[2] <= Len(groups[p[1]]) }

\* C2: getConnectedGroups partitions the matched set: every matched
\* identifier is at exactly one place of exactly one group, every member of a
\* group is a matched cell of the board, no group is empty, and the cells of
\* a group have one type.
C2_GroupsPartitionMatched ==
    fnOp = "getConnectedGroups" =>
        /\ \A id \in inMatched :
              Cardinality({ p \in GroupPlaces(fnOut) : fnOut[p[1]][p[2]].id = id }) = 1
        /\ \A p \in GroupPlaces(fnOut) :
              /\ fnOut[p[1]][p[2]].id \in inMatched
              /\ fnOut[p[1]][p[2]] = CellById(inBoard, fnOut[p[1]][p[2]].id)
        /\ \A g \in 1 .. Len(fnOut) :
              /\ Len(fnOut[g]) >= 1
              /\ \A i, j \in 1 .. Len(fnOut[g]) : fnOut[g][i].type = fnOut[g][j].type

\* Witness of C2: groups were computed for a matched set that leaves cells
\* out, and two groups of different types touch.
C2_Witness ==
    /\ fnOp = "getConnectedGroups"
    /\ inMatched # BoardIds(inBoard)
    /\ \E g, h \in 1 .. Len(fnOut) :
          /\ fnOut[g][1].type # fnOut[h][1].type
          /\ \E i \in 1 .. Len(fnOut[g]), j \in 1 .. Len(fnOut[h]) :
                /\ fnOut[g][i].row = fnOut[h][j].row
                /\ fnOut[g][i].col + 1 = fnOut[h][j].col

\* The classification the claim states, from the size and the positions only.
OneRow(group) == \A i, j \in 1 .. Len(group) : group[i].row = group[j].row
OneCol(group) == \A i, j \in 1 .. Len(group) : group[i].col = group[j].col

ExpectedSpecial(group) ==
    CASE Len(group) < 4 -> "NONE"
      [] Len(group) = 4 /\ OneRow(group) -> "COL_BLAST"
      [] Len(group) = 4 /\ ~OneRow(group) /\ OneCol(group) -> "ROW_BLAST"
      [] Len(group) = 4 /\ ~OneRow(group) /\ ~OneCol(group) -> "NONE"
      [] Len(group) >= 5 /\ (OneRow(group) \/ OneCol(group)) -> "RAINBOW"
      [] OTHER -> "AREA_BLAST"

\* C3: classifyMatchGroup gives NONE below size 4, COL_BLAST for 4 cells in
\* one row, ROW_BLAST for 4 cells in one column, NONE for 4 cells that are
\* neither, RAINBOW for 5 or more cells in one row or one column and
\* AREA_BLAST for 5 or more cells otherwise.
C3_ClassifyBySizeAndShape ==
    fnOp = "classifyMatchGroup" =>
        \A i \in 1 .. Len(fnOut) : fnOut[i].special = ExpectedSpecial(fnOut[i].group)

\* Witness of C3: one input whose groups include 4 cells in one row
\* (COL_BLAST), 4 cells in neither a row nor a column (NONE) and 5 or more
\* cells not in a line (AREA_BLAST).
C3_Witness ==
    /\ fnOp = "classifyMatchGroup"
    /\ \E i \in 1 .. Len(fnOut) :
          Len(fnOut[i].group) = 4 /\ OneRow(fnOut[i].group) /\ fnOut[i].special = "COL_BLAST"
    /\ \E i \in 1 .. Len(fnOut) :
          /\ Len(fnOut[i].group) = 4
          /\ ~OneCol(fnOut[i].group) /\ ~OneRow(fnOut[i].group)
          /\ fnOut[i].special = "NONE"
    /\ \E i \in 1 .. Len(fnOut) :
          Len(fnOut[i].group) >= 5 /\ fnOut[i].special = "AREA_BLAST"

\* The surviving cells of column c of board b, top to bottom.
Survivors(b, c) ==
    SelectSeq([i \in 1 .. GRID_ROWS |-> b[i - 1][c]],
              LAMBDA cell : cell.status # "MATCHED" /\ cell.status # "EMPTY")

\* C4: applyGravity keeps exactly the cells that are neither MATCHED nor
\* EMPTY: in every column they fill the bottom rows in their input order with
\* the same identifier, type and special kind, and no other input cell is in
\* the output.
C4_GravityKeepsSurvivorsInOrder ==
    fnOp = "applyGravity" =>
        \A c \in Cols :
            LET surv == Survivors(inBoard, c)
                top == GRID_ROWS - Len(surv)
            IN  /\ \A i \in 1 .. Len(surv) :
                      LET out == fnOut[top + i - 1][c] IN
                      /\ out.id = surv[i].id
                      /\ out.type = surv[i].type
                      /\ out.special = surv[i].special
                      /\ out.col = c
                /\ \A r \in 0 .. (top - 1) : fnOut[r][c].id \notin BoardIds(inBoard)

\* Witness of C4: gravity was applied to a column in which a survivor has a
\* cleared cell below it and another survivor above it that has to drop too.
C4_Witness ==
    /\ fnOp = "applyGravity"
    /\ \E c \in Cols, r1, r2, r3 \in Rows :
          /\ r1 < r2 /\ r2 < r3
          /\ inBoard[r1][c].status \notin {"MATCHED", "EMPTY"}
          /\ inBoard[r2][c].status \notin {"MATCHED", "EMPTY"}
          /\ inBoard[r3][c].status = "EMPTY"
          /\ \E r4 \in Rows : r1 < r4 /\ r4 < r2 /\ inBoard[r4][c].status = "MATCHED"

----------------------------------------------------------------------------
(* The game: the handlers of src/App.tsx as actions.                       *)
(*                                                                         *)
(* A handler reads the state through the closure of the render it was      *)
(* created in (view); its set-state calls take effect on the state, which  *)
(* the next render commits to view.  A continuation after an await runs    *)
(* from a timer, well after the render of the handler that started it: it  *)
(* uses the values its closure captured (the task record) and functional   *)
(* updates, and its own updates are rendered at its end.                   *)

\* What a render hands to the handlers it creates.
Snapshot(b, proc, phase, level, gemCount, inv, tool, cmb) ==
    [board |-> b, isProcessing |-> proc, gamePhase |-> phase, currentLevel |-> level,
     level1GemCount |-> gemCount, inventory |-> inv, activeTool |-> tool, combo |-> cmb]

\* activeGemTypes of a render (line 65).
ActiveGemTypes(v) ==
    getGemTypesForLevel(v.currentLevel, IF v.currentLevel = 1 THEN v.level1GemCount ELSE 0)

\* The win/loss effect (lines 145-160), run after a render with the values
\* of that render: the phase it leaves.
PhaseAfterEffect(phase, sc, moves, proc, level) ==
    IF phase # "PLAYING" THEN phase
    ELSE IF sc >= getLevelConfig(level).targetScore THEN "LEVEL_COMPLETE"
    ELSE IF ~proc /\ moves <= 0 THEN "GAME_OVER"
    ELSE phase

\* A render of the state the step leaves, followed by the win/loss effect
\* and the render of what the effect set.  The step itself must not set
\* gamePhase.
RenderAfter ==
    /\ gamePhase' = PhaseAfterEffect(gamePhase, score', movesLeft', isProcessing', currentLevel')
    /\ view' = Snapshot(board', isProcessing', gamePhase', currentLevel', level1GemCount',
                        inventory', activeTool', combo')

\* A waiting continuation: the line it resumes at (pc) and what its closure
\* holds.  b is the board the chain works on, pre the board of the render
\* handleSwap was created in, pos1/pos2 the swapped positions, combo the
\* combo passed on, level and types the currentLevel and activeGemTypes
\* that resolveBoard captured.  rnd is the random source of the refills of
\* the chain, drawn at its first refill (NoRnd before).  origin, pass and
\* old are not in the code: they record which handler started the chain,
\* the number of detection passes it has run (counted up to MaxPass) and
\* whether startLevel was called since the chain started.
MkTask(pc, b, pre, pos1, pos2, cmb, level, types, rnd) ==
    [pc |-> pc, b |-> b, pre |-> pre, pos1 |-> pos1, pos2 |-> pos2,
     combo |-> cmb, level |-> level, types |-> types, rnd |-> rnd,
     origin |-> pc, pass |-> 0, old |-> FALSE]

NoRnd == [a |-> 0 - 1, b |-> 0 - 1, s |-> 0 - 1]

RemoveAt(s, i) == SubSeq(s, 1, i - 1) \o SubSeq(s, i + 1, Len(s))

\* Continuation i waits again as t: its timer is set after those of the
\* continuations already waiting.
Requeue(i, t) == Append(RemoveAt(tasks, i), t)

UsedIds(b) == IF DOMAIN b = {} THEN {} ELSE BoardIds(b)

\* ---- handlers of the player ----

\* startLevel cancels no timer: the continuations that wait go on waiting,
\* marked as started before this call.
Outlived(ts) == IF ts = <<>> THEN ts ELSE [i \in 1 .. Len(ts) |-> [ts[i] EXCEPT !.old = TRUE]]

StartLevelKeepsInventory ==
    /\ view.gamePhase \in {"START", "LEVEL_COMPLETE", "GAME_OVER"}
    /\ turns < MaxTurns
    /\ turns' = turns + 1
    /\ LET level == IF view.gamePhase = "START" THEN 1
                    ELSE IF view.gamePhase = "LEVEL_COMPLETE" THEN view.currentLevel + 1
                    ELSE view.currentLevel
           config == getLevelConfig(level)
           types == getGemTypesForLevel(level, IF level = 1 THEN view.level1GemCount ELSE 0)
       IN  /\ currentLevel' = level
           /\ movesLeft' = config.moves
           /\ \E s \in 1 .. NumTemplates :
                 board' = createInitialBoard(types, [t |-> Template(s), used |-> UsedIds(board)])
    /\ score' = 0
    /\ combo' = 0
    /\ comboTimer' = 0
    /\ activeTool' = "null"
    /\ gamePhase' = "PLAYING"
    /\ last' = "startLevel"
    /\ tasks' = Outlived(tasks)
    /\ UNCHANGED <<isProcessing, level1GemCount, inventory, view, fnVars>>

\* startLevel (lines 72-90), from the START screen (level 1), the
\* LEVEL_COMPLETE modal (next level) or the GAME_OVER modal (same level).
StartLevel ==
    /\ view.gamePhase \in {"START", "LEVEL_COMPLETE", "GAME_OVER"}
    /\ turns < MaxTurns
    /\ turns' = turns + 1
    /\ LET level == IF view.gamePhase = "START" THEN 1
                    ELSE IF view.gamePhase = "LEVEL_COMPLETE" THEN view.currentLevel + 1
                    ELSE view.currentLevel
           config == getLevelConfig(level)
           types == getGemTypesForLevel(level, IF level = 1 THEN view.level1GemCount ELSE 0)
       IN  /\ currentLevel' = level
           /\ movesLeft' = config.moves
           /\ \E s \in 1 .. NumTemplates :
                 board' = createInitialBoard(types, [t |-> Template(s), used |-> UsedIds(board)])
    /\ score' = 0
    /\ combo' = 0
    /\ comboTimer' = 0
    /\ inventory' = [BOMB |-> 2, REFRESH |-> 2]
    /\ activeTool' = "null"
    /\ gamePhase' = "PLAYING"
    /\ last' = "startLevel"
    /\ tasks' = Outlived(tasks)
    /\ UNCHANGED <<isProcessing, level1GemCount, view, fnVars>>

\* goHome (lines 96-99): the HUD button while playing, the Menu button of
\* the GAME_OVER modal.
GoHome ==
    /\ view.gamePhase \in {"PLAYING", "GAME_OVER"}
    /\ turns < MaxTurns
    /\ turns' = turns + 1
    /\ gamePhase' = "START"
    /\ last' = "goHome"
    /\ UNCHANGED <<board, score, isProcessing, currentLevel, movesLeft, level1GemCount,
                   inventory, activeTool, combo, comboTimer, view, tasks, fnVars>>

\* The slider of the START screen (line 756).
SetLevel1GemCount ==
    /\ view.gamePhase = "START"
    /\ turns < MaxTurns
    /\ turns' = turns + 1
    /\ \E n \in 3 .. MaxGemCount :
          /\ n # level1GemCount
          /\ level1GemCount' = n
    /\ last' = "setLevel1GemCount"
    /\ UNCHANGED <<board, score, isProcessing, gamePhase, currentLevel, movesLeft,
                   inventory, activeTool, combo, comboTimer, view, tasks, fnVars>>

\* The bomb button (lines 1014-1019).
ToggleBomb ==
    /\ view.gamePhase = "PLAYING"
    /\ ~(view.inventory.BOMB = 0 \/ view.isProcessing)
    /\ view.activeTool = "BOMB" \/ view.inventory.BOMB > 0
    /\ turns < MaxTurns
    /\ turns' = turns + 1
    /\ activeTool' = IF view.activeTool = "BOMB" THEN "null" ELSE "BOMB"
    /\ last' = "toggleBomb"
    /\ UNCHANGED <<board, score, isProcessing, gamePhase, currentLevel, movesLeft,
                   level1GemCount, inventory, combo, comboTimer, view, tasks, fnVars>>

\* No update of a handler waits for its render.
Rendered ==
    view = Snapshot(board, isProcessing,
                    PhaseAfterEffect(gamePhase, score, movesLeft, isProcessing, currentLevel),
                    currentLevel, level1GemCount, inventory, activeTool, combo)

\* React renders the pending updates of the handlers and runs the effect.
Render ==
    /\ ~Rendered
    /\ last' = "render"
    /\ UNCHANGED <<board, score, isProcessing, currentLevel, movesLeft, level1GemCount,
                   inventory, activeTool, combo, comboTimer, tasks, turns, fnVars>>
    /\ RenderAfter

\* The positions next to pos, inside the board.
AdjacentTo(pos) ==
    { q \in { [row |-> pos.row - 1, col |-> pos.col], [row |-> pos.row + 1, col |-> pos.col],
              [row |-> pos.row, col |-> pos.col - 1], [row |-> pos.row, col |-> pos.col + 1] } :
        InBounds(q.row, q.col) }

NoPos == NoTarget

\* handleSwap up to its first await (lines 408-426), called by the second
\* click of onCellClick (lines 615-644) or by a swipe (lines 646-687); the
\* swipe path tests no more than the guards below.
Swap ==
    /\ ~view.isProcessing
    /\ view.gamePhase = "PLAYING"
    /\ view.activeTool # "BOMB"
    /\ turns < MaxTurns
    /\ Len(tasks) < MaxTasks
    /\ \E i \in 1 .. NumCells : \E pos2 \in AdjacentTo(PlayerCells[i]) :
          LET pos1 == PlayerCells[i]
              tempBoard == SwapBoard(view.board, pos1, pos2)
          IN  /\ board' = tempBoard
              /\ tasks' = Append(tasks, MkTask("swap", tempBoard, view.board, pos1, pos2,
                                               view.combo, view.currentLevel, ActiveGemTypes(view), NoRnd))
    /\ isProcessing' = TRUE
    /\ turns' = turns + 1
    /\ last' = "handleSwap"
    /\ UNCHANGED <<score, gamePhase, currentLevel, movesLeft, level1GemCount, inventory,
                   activeTool, combo, comboTimer, view, fnVars>>

\* activateBomb up to its await (lines 570-591).
ActivateBomb(centerPos) ==
    /\ ~(view.inventory.BOMB <= 0)
    /\ turns < MaxTurns
    /\ Len(tasks) < MaxTasks
    /\ isProcessing' = TRUE
    /\ inventory' = [inventory EXCEPT !.BOMB = inventory.BOMB - 1]
    /\ activeTool' = "null"
    /\ LET tempBoard == BombBoard(view.board, centerPos)
       IN  /\ board' = tempBoard
           /\ tasks' = Append(tasks, MkTask("bomb", tempBoard, <<>>, NoPos, NoPos,
                                            view.combo, view.currentLevel, ActiveGemTypes(view), NoRnd))
    /\ turns' = turns + 1
    /\ UNCHANGED <<score, gamePhase, currentLevel, movesLeft, level1GemCount,
                   combo, comboTimer, view, fnVars>>

\* onCellClick with the bomb tool (lines 615-622).
BombClick ==
    /\ ~(view.gamePhase # "PLAYING" \/ view.isProcessing)
    /\ view.activeTool = "BOMB"
    /\ \E i \in 1 .. NumCells : ActivateBomb(PlayerCells[i])
    /\ last' = "bombClick"

\* onTouchStart of a cell with the bomb tool (lines 932-935); the cells can
\* be touched while the board is shown and no modal covers it.
BombTouch ==
    /\ view.gamePhase = "PLAYING"
    /\ view.activeTool = "BOMB"
    /\ \E i \in 1 .. NumCells : ActivateBomb(PlayerCells[i])
    /\ last' = "bombTouch"

\* activateReshuffle up to its await (lines 596-605), from its button
\* (lines 1036-1038).
Reshuffle ==
    /\ view.gamePhase = "PLAYING"
    /\ ~(view.inventory.REFRESH = 0 \/ view.isProcessing)
    /\ ~(view.isProcessing \/ view.inventory.REFRESH <= 0)
    /\ turns < MaxTurns
    /\ Len(tasks) < MaxTasks
    /\ isProcessing' = TRUE
    /\ inventory' = [inventory EXCEPT !.REFRESH = inventory.REFRESH - 1]
    /\ board' = [r \in Rows |-> [c \in Cols |-> [board[r][c] EXCEPT !.status = "MATCHED"]]]
    /\ tasks' = Append(tasks, MkTask("reshuffle", <<>>, <<>>, NoPos, NoPos,
                                     view.combo, view.currentLevel, ActiveGemTypes(view), NoRnd))
    /\ turns' = turns + 1
    /\ last' = "activateReshuffle"
    /\ UNCHANGED <<score, gamePhase, currentLevel, movesLeft, level1GemCount,
                   activeTool, combo, comboTimer, view, fnVars>>

\* ---- continuations ----

CapScore(x) == Min2(x, MaxScore)
CapCombo(x) == Min2(x, MaxCombo)

\* The seeds of the position draws of a pass: they matter only when the
\* board holds a RAINBOW special.
DrawSeeds(b) ==
    IF \E r \in Rows, c \in Cols : b[r][c].special = "RAINBOW" THEN 0 .. MaxDraw ELSE {0}

\* resolveBoard(currentBoard, currentCombo, lastSwapTarget) up to its first
\* await or to its end (lines 217-379, 401-404), called by continuation i.
\* A pass that matches commits matchedBoard and waits for the pop
\* animation; a pass that matches nothing clears the flag and the chain is
\* over.  committed tells whether the caller has called setBoard(currentBoard)
\* just before (line 395).
ResolvePass(i, currentBoard, currentCombo, lastSwapTarget, committed) ==
    \E rnd \in DrawSeeds(currentBoard) :
        LET t == tasks[i]
            matchedIds == MatchedIdsOfPass(currentBoard, rnd)
            matchedBoard == MatchedBoard(currentBoard, matchedIds, lastSwapTarget)
            nextCombo == CapCombo(currentCombo + 1)
        IN  IF Cardinality(matchedIds) > 0
            THEN /\ isProcessing' = TRUE
                 /\ score' = CapScore(score + TurnPoints(currentBoard, matchedIds, currentCombo, t.level))
                 /\ combo' = nextCombo
                 /\ comboTimer' = MAX_COMBO_TIME
                 /\ board' = matchedBoard
                 /\ tasks' = Requeue(i, [t EXCEPT !.pc = "pop", !.b = matchedBoard, !.pre = <<>>,
                                                   !.pos1 = NoPos, !.pos2 = NoPos,
                                                   !.combo = nextCombo,
                                                   !.pass = Min2(t.pass + 1, MaxPass)])
            ELSE /\ isProcessing' = FALSE
                 /\ board' = IF committed THEN currentBoard ELSE board
                 /\ tasks' = RemoveAt(tasks, i)
                 /\ UNCHANGED <<score, combo, comboTimer>>

\* handleSwap after the swap animation (lines 428-565).
SwapContinue(i) ==
    /\ tasks[i].pc = "swap"
    /\ LET t == tasks[i]
           cell1 == t.pre[t.pos1.row][t.pos1.col]
           cell2 == t.pre[t.pos2.row][t.pos2.col]
       IN  IF cell1.special # "NONE" /\ cell2.special # "NONE"
           THEN LET activeBoard == ComboBoard(t.pre, t.b, cell1, cell2, t.pos2)
                IN  /\ movesLeft' = movesLeft - 1
                    /\ board' = activeBoard
                    /\ tasks' = Requeue(i, [t EXCEPT !.pc = "special", !.b = activeBoard,
                                                      !.origin = IF cell1.special = "RAINBOW"
                                                                    /\ cell2.special = "RAINBOW"
                                                                 THEN "rainbows" ELSE "specials"])
                    /\ last' = "swapSpecials"
                    /\ UNCHANGED <<score, isProcessing, combo, comboTimer>>
           ELSE IF cell1.special = "RAINBOW" \/ cell2.special = "RAINBOW"
           THEN LET activeBoard == RainbowBoard(t.b, cell1, cell2)
                IN  /\ movesLeft' = movesLeft - 1
                    /\ board' = activeBoard
                    /\ tasks' = Requeue(i, [t EXCEPT !.pc = "special", !.b = activeBoard,
                                                      !.origin = "rainbow"])
                    /\ last' = "swapRainbow"
                    /\ UNCHANGED <<score, isProcessing, combo, comboTimer>>
           ELSE IF Cardinality(findMatches(t.b)) > 0
           THEN /\ movesLeft' = movesLeft - 1
                /\ ResolvePass(i, t.b, t.combo, t.pos2, FALSE)
                /\ last' = "swapValid"
           ELSE /\ board' = RevertBoard(t.b, t.pos1, t.pos2)
                /\ tasks' = Requeue(i, [t EXCEPT !.pc = "revert"])
                /\ last' = "swapInvalid"
                /\ UNCHANGED <<score, isProcessing, movesLeft, combo, comboTimer>>
    /\ UNCHANGED <<currentLevel, level1GemCount, inventory, activeTool, turns, fnVars>>
    /\ RenderAfter

\* handleSwap after the animation of a special swap (lines 506-507, 531-532)
\* and activateBomb after its animation (lines 591-593).
SpecialContinue(i) ==
    /\ tasks[i].pc \in {"special", "bomb"}
    /\ ResolvePass(i, tasks[i].b, tasks[i].combo, NoTarget, FALSE)
    /\ last' = IF tasks[i].pc = "bomb" THEN "bombResolve" ELSE "specialResolve"
    /\ UNCHANGED <<currentLevel, movesLeft, level1GemCount, inventory, activeTool,
                   turns, fnVars>>
    /\ RenderAfter

\* handleSwap after the animation of the swap back (lines 565-566).
RevertContinue(i) ==
    /\ tasks[i].pc = "revert"
    /\ isProcessing' = FALSE
    /\ tasks' = RemoveAt(tasks, i)
    /\ last' = "swapReverted"
    /\ UNCHANGED <<board, score, currentLevel, movesLeft, level1GemCount, inventory,
                   activeTool, combo, comboTimer, turns, fnVars>>
    /\ RenderAfter

\* activateReshuffle after its animation (lines 607-610).
ReshuffleContinue(i) ==
    /\ tasks[i].pc = "reshuffle"
    /\ \E s \in 1 .. NumTemplates :
          board' = createInitialBoard(tasks[i].types, [t |-> Template(s), used |-> UsedIds(board)])
    /\ isProcessing' = FALSE
    /\ tasks' = RemoveAt(tasks, i)
    /\ last' = "reshuffled"
    /\ UNCHANGED <<score, currentLevel, movesLeft, level1GemCount, inventory,
                   activeTool, combo, comboTimer, turns, fnVars>>
    /\ RenderAfter

PopContinueFromZero(i) ==
    /\ tasks[i].pc = "pop"
    /\ \E rnd \in (IF tasks[i].rnd = NoRnd THEN Refills ELSE {tasks[i].rnd}) :
          LET newBoard == applyGravity(tasks[i].b, tasks[i].types, rnd)
          IN  /\ board' = newBoard
              /\ tasks' = Requeue(i, [tasks[i] EXCEPT !.pc = "drop", !.b = newBoard, !.rnd = rnd,
                                                       !.combo = 0])
    /\ last' = "dropped"
    /\ UNCHANGED <<score, isProcessing, currentLevel, movesLeft, level1GemCount, inventory,
                   activeTool, combo, comboTimer, turns, fnVars>>
    /\ RenderAfter

\* resolveBoard after the pop animation (lines 381-386).
PopContinue(i) ==
    /\ tasks[i].pc = "pop"
    /\ \E rnd \in (IF tasks[i].rnd = NoRnd THEN Refills ELSE {tasks[i].rnd}) :
          LET newBoard == applyGravity(tasks[i].b, tasks[i].types, rnd)
          IN  /\ board' = newBoard
              /\ tasks' = Requeue(i, [tasks[i] EXCEPT !.pc = "drop", !.b = newBoard, !.rnd = rnd])
    /\ last' = "dropped"
    /\ UNCHANGED <<score, isProcessing, currentLevel, movesLeft, level1GemCount, inventory,
                   activeTool, combo, comboTimer, turns, fnVars>>
    /\ RenderAfter

DropContinueUnsettled(i) ==
    /\ tasks[i].pc = "drop"
    /\ ResolvePass(i, tasks[i].b, tasks[i].combo, NoTarget, TRUE)
    /\ last' = IF isProcessing' THEN "cascade" ELSE "turnEnd"
    /\ UNCHANGED <<currentLevel, movesLeft, level1GemCount, inventory, activeTool,
                   turns, fnVars>>
    /\ RenderAfter

\* resolveBoard after the drop animation (lines 388-399): the board settles
\* and the next pass starts on it.
DropContinue(i) ==
    /\ tasks[i].pc = "drop"
    /\ ResolvePass(i, SettledBoard(tasks[i].b), tasks[i].combo, NoTarget, TRUE)
    /\ last' = IF isProcessing' THEN "cascade" ELSE "turnEnd"
    /\ UNCHANGED <<currentLevel, movesLeft, level1GemCount, inventory, activeTool,
                   turns, fnVars>>
    /\ RenderAfter

\* The interval of the combo effect (lines 125-142), set up by a render with
\* a combo, no processing and the level playing.  The timer runs from
\* MAX_COMBO_TIME down in steps of COMBO_DECAY_RATE; the step below takes
\* it to 0 at once, and the tick after that resets the combo.
ComboTick ==
    /\ view.gamePhase = "PLAYING"
    /\ view.combo > 0 /\ ~view.isProcessing
    /\ Rendered
    /\ IF comboTimer <= 0
       THEN combo' = 0 /\ comboTimer' = 0
       ELSE combo' = combo /\ comboTimer' = 0
    /\ last' = "comboTick"
    /\ UNCHANGED <<board, score, isProcessing, currentLevel, movesLeft, level1GemCount,
                   inventory, activeTool, tasks, turns, fnVars>>
    /\ RenderAfter

\* A timer is due: a continuation waits and no render is pending.
TimerDue == Rendered /\ tasks # <<>>

\* A continuation runs from a timer ANIMATION_DURATION after the handler or
\* continuation that set it (lines 379, 386, 426, 506, 531, 565, 591, 605):
\* the render of a handler's updates, a matter of one frame, comes first,
\* and the timers, all of one duration, fire in the order they were set.
Continue ==
    /\ TimerDue
    /\ \E i \in {1} :
        \/ SwapContinue(i)
        \/ SpecialContinue(i)
        \/ RevertContinue(i)
        \/ ReshuffleContinue(i)
        \/ PopContinue(i)
        \/ DropContinue(i)

----------------------------------------------------------------------------
(* States of a level under way.  Each is computed with the operators of    *)
(* the handlers from the state after construction, so it is a state the    *)
(* program reaches; the calls that lead to it are named with it.           *)

Level1Types == getGemTypesForLevel(1, 5)

\* A refill source: the cell generated at (r, c) takes type index r + c.
PlayRefill == [a |-> 1, b |-> 1, s |-> 0]

\* resolveBoard run to its end (lines 217-405) on b with the refill source
\* rnd: the board, the score and the combo it leaves.
RECURSIVE Cascade(_, _, _, _, _, _, _)
Cascade(b, sc, cmb, lastSwapTarget, level, types, rnd) ==
    LET matchedIds == MatchedIdsOfPass(b, 0) IN
    IF Cardinality(matchedIds) > 0
    THEN Cascade(ExplicitBoard(SettledBoard(applyGravity(
                    ExplicitBoard(MatchedBoard(b, matchedIds, lastSwapTarget)), types, rnd))),
                 CapScore(sc + TurnPoints(b, matchedIds, cmb, level)), CapCombo(cmb + 1),
                 NoTarget, level, types, rnd)
    ELSE [board |-> b, score |-> sc, combo |-> cmb]

\* MidState(1): level 1 started on the board of Template(2), the bomb used
\* on (4,4), the board reshuffled to that of Template(1) and the bomb tool
\* selected again.
\* MidState(2): level 1 started on the board of Template(3) and (4,3)
\* exchanged with (4,4); the two RAINBOW cells this creates have come to
\* rest at (6,3) and (6,4).
\* MidState(3): level 2 started on the board of Template(1), the bomb tool
\* selected, the reshuffle button pressed and, while its animation ran, the
\* cell PlayerCells[1] touched (BombTouch); the reshuffle has put up its
\* new board and cleared the flag, the reshuffle button was pressed again,
\* the bomb has resolved its board (all of it MATCHED), the second
\* reshuffle has cleared the flag again and the bomb chain has dropped its
\* refill (PlayRefill): its continuation waits for the drop animation
\* while the flag is clear.
\* MidState(4): level 1 started on the board of AnchorTemplate.
\* MidState(5), MidState(7): level 1 under way, the board at rest with the
\* cells of Template(1) and the specials of SpecialsLeft(5), SpecialsLeft(7)
\* on it: a cell chosen in a group keeps its type and takes the kind of
\* the group, and gravity and the refills bring it next to any other.
\* The turns that left them are counted (one run of four each, the combo
\* decayed in between), not replayed.
\* MidState(6): level 3 under way; three swaps in a row have cleared one
\* run of three each, which took the combo to 3, and the board has been
\* reshuffled to that of ThreeTemplate before the combo timer ran out.
\* MidState(8): level 1 under way, the board at rest with the cells of
\* Template(1) and the specials of SpecialsLeft(8) on it: a RAINBOW left by
\* a run of five at (6,3), three other specials and an ordinary cell next
\* to it.
\* MidState(9), MidState(10): level 1 with one move left, after six runs of
\* four and three runs of three (score 900) and a reshuffle to the board of
\* AnchorTemplate, or after nine runs of three (score 540) and a reshuffle
\* to the board of ThreeTemplate.
\* MidState(11): as MidState(8) with the specials of SpecialsLeft(11): the
\* RAINBOW at (7,3) between three RED cells of row 7, a RED ROW_BLAST
\* above it.
\* MidState(12): level 2 under way on the cells of UpperTemplate; four runs
\* of five have left four RAINBOW cells, which gravity has brought to
\* column 1, two above and two below the cell at (5,1).
\* MidState(13): level 2 with one move left, on the board of Template(2);
\* the bomb tool selected, the reshuffle button pressed and, while its
\* animation runs, the cell PlayerCells[1] touched (BombTouch): both
\* continuations wait and the flag is set.
\* MidState(14): level 1 on the board of GapTemplate with a wildcard at
\* (6,3), left by an earlier turn.
\* MidState(k), k > 14: level 1 started on the board of Template(k - 14) and
\* PlayerCells[1] exchanged with the cell below it.
\* In all but the third and the sixth the combo has decayed to 0, and in
\* all but the thirteenth no turn is being processed.
\* The specials earlier turns have left on the board of MidState(5) and of
\* MidState(7), by position: around (6,3) two specials of every pair of
\* kinds side by side, and further specials in their blast areas.
SpecialsLeft(k) ==
    IF k = 5
    THEN (<<6, 3>> :> "AREA_BLAST") @@ (<<7, 3>> :> "ROW_BLAST") @@ (<<6, 4>> :> "AREA_BLAST")
           @@ (<<5, 3>> :> "COL_BLAST") @@ (<<5, 6>> :> "COL_BLAST") @@ (<<0, 6>> :> "AREA_BLAST")
    ELSE IF k = 7
    THEN (<<6, 3>> :> "ROW_BLAST") @@ (<<7, 3>> :> "COL_BLAST") @@ (<<5, 3>> :> "ROW_BLAST")
           @@ (<<6, 4>> :> "AREA_BLAST") @@ (<<6, 7>> :> "COL_BLAST") @@ (<<1, 7>> :> "AREA_BLAST")
    ELSE IF k = 8
    THEN (<<6, 3>> :> "RAINBOW") @@ (<<5, 3>> :> "COL_BLAST") @@ (<<6, 4>> :> "AREA_BLAST")
           @@ (<<6, 2>> :> "ROW_BLAST")
    ELSE IF k = 11
    THEN (<<7, 3>> :> "RAINBOW") @@ (<<6, 3>> :> "ROW_BLAST")
    ELSE IF k = 14
    THEN (<<6, 3>> :> "RAINBOW")
    ELSE (<<3, 1>> :> "RAINBOW") @@ (<<4, 1>> :> "RAINBOW") @@ (<<6, 1>> :> "RAINBOW")
           @@ (<<7, 1>> :> "RAINBOW")

\* The board b with the cells at the positions of f carrying the specials
\* f; a cell chosen as RAINBOW has taken the RAINBOW type (line 351).
WithSpecials(b, f) ==
    ExplicitBoard([r \in Rows |-> [c \in Cols |->
        IF <<r, c>> \in DOMAIN f
        THEN [b[r][c] EXCEPT !.special = f[<<r, c>>],
                             !.type = IF f[<<r, c>>] = "RAINBOW" THEN "RAINBOW" ELSE @]
        ELSE b[r][c]]])

MidState(k) ==
    IF k = 1
    THEN LET b0 == createInitialBoard(Level1Types, [t |-> Template(2), used |-> {}])
             res == Cascade(ExplicitBoard(BombBoard(b0, [row |-> 4, col |-> 4])), 0, 0, NoTarget, 1,
                            Level1Types, PlayRefill)
         IN  [score |-> res.score,
              board |-> createInitialBoard(Level1Types,
                                           [t |-> Template(1), used |-> BoardIds(res.board)]),
              movesLeft |-> getLevelConfig(1).moves,
              inventory |-> [BOMB |-> 1, REFRESH |-> 1], activeTool |-> "BOMB",
              level |-> 1, combo |-> 0, comboTimer |-> 0, tasks |-> <<>>,
              turns |-> MaxTurns - 2]
    ELSE IF k = 3
    THEN LET types == getGemTypesForLevel(2, 0) IN
         The({ The({ The({ The({ The({
             [score |-> CapScore(TurnPoints(tempBoard, matchedIds, 0, 2)),
              board |-> newBoard,
              movesLeft |-> getLevelConfig(2).moves,
              inventory |-> [BOMB |-> 1, REFRESH |-> 0], activeTool |-> "null",
              level |-> 2, combo |-> 1, comboTimer |-> MAX_COMBO_TIME,
              tasks |-> << [MkTask("bomb", tempBoard, <<>>, NoPos, NoPos, 0, 2, types, NoRnd)
                               EXCEPT !.pc = "drop", !.b = newBoard, !.combo = 1,
                                      !.pass = 1, !.rnd = PlayRefill] >>,
              turns |-> MaxTurns - 1]
             : newBoard \in {applyGravity(ExplicitBoard(MatchedBoard(tempBoard, matchedIds, NoTarget)),
                                          types, PlayRefill)} })
             : matchedIds \in {MatchedIdsOfPass(tempBoard, 0)} })
             : tempBoard \in {ExplicitBoard(BombBoard(shown, PlayerCells[1]))} })
             : shown \in {ExplicitBoard([r \in Rows |-> [c \in Cols |->
                                            [b0[r][c] EXCEPT !.status = "MATCHED"]]])} })
             : b0 \in {createInitialBoard(types, [t |-> Template(1), used |-> {}])} })
    ELSE IF k = 4
    THEN [score |-> 0,
          board |-> createInitialBoard(Level1Types, [t |-> AnchorTemplate, used |-> {}]),
          movesLeft |-> getLevelConfig(1).moves,
          inventory |-> [BOMB |-> 2, REFRESH |-> 2], activeTool |-> "null",
          level |-> 1, combo |-> 0, comboTimer |-> 0, tasks |-> <<>>,
          turns |-> MaxTurns - 1]
    ELSE IF k \in {5, 7, 8, 11, 14}
    THEN The({ [score |-> CapScore((Cardinality(DOMAIN SpecialsLeft(k)) * GroupScore(4, 0, 1))
                                     + (IF k \in {8, 11, 14} THEN GroupScore(5, 0, 1) - GroupScore(4, 0, 1)
                                        ELSE 0)),
                board |-> WithSpecials(b0, SpecialsLeft(k)),
                movesLeft |-> getLevelConfig(1).moves - Cardinality(DOMAIN SpecialsLeft(k)),
                inventory |-> [BOMB |-> 2, REFRESH |-> 2], activeTool |-> "null",
                level |-> 1, combo |-> 0, comboTimer |-> 0, tasks |-> <<>>,
                turns |-> MaxTurns - 1]
               : b0 \in {createInitialBoard(Level1Types,
                                             [t |-> IF k = 14 THEN GapTemplate ELSE Template(1),
                                              used |-> {}])} })
    ELSE IF k = 6
    THEN [score |-> CapScore(GroupScore(3, 0, 3) + GroupScore(3, 1, 3) + GroupScore(3, 2, 3)),
          board |-> createInitialBoard(getGemTypesForLevel(3, 0),
                                       [t |-> ThreeTemplate, used |-> {}]),
          movesLeft |-> getLevelConfig(3).moves - 3,
          inventory |-> [BOMB |-> 2, REFRESH |-> 1], activeTool |-> "null",
          level |-> 3, combo |-> 3, comboTimer |-> MAX_COMBO_TIME, tasks |-> <<>>,
          turns |-> MaxTurns - 1]
    ELSE IF k = 12
    THEN [score |-> CapScore(4 * GroupScore(5, 0, 2)),
          board |-> WithSpecials(createInitialBoard(getGemTypesForLevel(2, 0),
                                                    [t |-> UpperTemplate, used |-> {}]),
                                 SpecialsLeft(12)),
          movesLeft |-> getLevelConfig(2).moves - 4,
          inventory |-> [BOMB |-> 2, REFRESH |-> 2], activeTool |-> "null",
          level |-> 2, combo |-> 0, comboTimer |-> 0, tasks |-> <<>>,
          turns |-> MaxTurns - 1]
    ELSE IF k = 13
    THEN LET types == getGemTypesForLevel(2, 0) IN
         The({ The({
             [score |-> CapScore(14 * GroupScore(3, 0, 2)),
              board |-> ExplicitBoard(BombBoard(shown, PlayerCells[1])),
              movesLeft |-> getLevelConfig(2).moves - 14,
              inventory |-> [BOMB |-> 1, REFRESH |-> 1], activeTool |-> "null",
              level |-> 2, combo |-> 0, comboTimer |-> 0,
              tasks |-> << MkTask("reshuffle", <<>>, <<>>, NoPos, NoPos, 0, 2, types, NoRnd),
                           MkTask("bomb", ExplicitBoard(BombBoard(shown, PlayerCells[1])),
                                  <<>>, NoPos, NoPos, 0, 2, types, NoRnd) >>,
              isProcessing |-> TRUE,
              turns |-> MaxTurns - 1]
             : shown \in {ExplicitBoard([r \in Rows |-> [c \in Cols |->
                                            [b0[r][c] EXCEPT !.status = "MATCHED"]]])} })
             : b0 \in {createInitialBoard(types, [t |-> Template(2), used |-> {}])} })
    ELSE IF k = 9 \/ k = 10
    THEN [score |-> IF k = 9 THEN (6 * GroupScore(4, 0, 1)) + (3 * GroupScore(3, 0, 1))
                    ELSE 9 * GroupScore(3, 0, 1),
          board |-> createInitialBoard(Level1Types,
                                       [t |-> IF k = 9 THEN AnchorTemplate ELSE ThreeTemplate,
                                        used |-> {}]),
          movesLeft |-> getLevelConfig(1).moves - 9,
          inventory |-> [BOMB |-> 2, REFRESH |-> 1], activeTool |-> "null",
          level |-> 1, combo |-> 0, comboTimer |-> 0, tasks |-> <<>>,
          turns |-> MaxTurns - 2]
    ELSE LET pos1 == IF k = 2 THEN [row |-> 4, col |-> 3] ELSE PlayerCells[1]
             pos2 == IF k = 2 THEN [row |-> 4, col |-> 4]
                     ELSE [row |-> PlayerCells[1].row + 1, col |-> PlayerCells[1].col]
             b0 == createInitialBoard(Level1Types,
                                      [t |-> Template(IF k = 2 THEN 3 ELSE k - 14), used |-> {}])
             res == Cascade(ExplicitBoard(SwapBoard(b0, pos1, pos2)), 0, 0, pos2, 1,
                            Level1Types, PlayRefill)
         IN  [score |-> res.score, board |-> res.board,
              movesLeft |-> getLevelConfig(1).moves - 1,
              inventory |-> [BOMB |-> 2, REFRESH |-> 2], activeTool |-> "null",
              level |-> 1, combo |-> 0, comboTimer |-> 0, tasks |-> <<>>,
              turns |-> MaxTurns - 1]

MidInit ==
    /\ \E k \in 1 .. NumMid :
          \E m \in {MidState(k)} :
          /\ board = m.board
          /\ score = m.score
          /\ movesLeft = m.movesLeft
          /\ inventory = m.inventory
          /\ activeTool = m.activeTool
          /\ currentLevel = m.level
          /\ combo = m.combo
          /\ comboTimer = m.comboTimer
          /\ tasks = m.tasks
          /\ turns = m.turns
          /\ isProcessing = ("isProcessing" \in DOMAIN m)
    /\ gamePhase = "PLAYING"
    /\ level1GemCount = 5
    /\ view = Snapshot(board, isProcessing, gamePhase, currentLevel, level1GemCount,
                       inventory, activeTool, combo)
    /\ last = "init"
    /\ inBoard = <<>>
    /\ inMatched = {}
    /\ fnOp = "none"
    /\ fnOut = <<>>

Init ==
    /\ AppInit
    /\ view = Snapshot(<<>>, FALSE, "START", 1, 5, [BOMB |-> 2, REFRESH |-> 2], "null", 0)
    /\ tasks = <<>>
    /\ turns = 0
    /\ last = "init"
    /\ inBoard = <<>>
    /\ inMatched = {}
    /\ fnOp = "none"
    /\ fnOut = <<>>

Next ==
    \/ StartLevel
    \/ GoHome
    \/ SetLevel1GemCount
    \/ ToggleBomb
    \/ Render
    \/ Swap
    \/ BombClick
    \/ BombTouch
    \/ Reshuffle
    \/ Continue
    \/ ComboTick

Spec == Init /\ [][Next]_vars

SpecMid == MidInit /\ [][Next]_vars

\* The timers fire and React renders: a pending update is rendered and a
\* waiting continuation runs.  Every position of a continuation has a step,
\* and every step changes tasks, so Continue is enabled exactly when
\* TimerDue holds: its weak fairness is written with TimerDue in the place
\* of ENABLED <<Continue>>_vars.
SpecLive ==
    /\ Init /\ [][Next]_vars
    /\ WF_vars(Render)
    /\ ([]<>(~TimerDue) \/ []<><<Continue>>_vars)

----------------------------------------------------------------------------
(* Claims about the game.                                                  *)

\* The continuation that has just run, when it waits again.
LastTask == tasks[Len(tasks)]

AllStatus(b, status) == \A r \in Rows, c \in Cols : b[r][c].status = status

\* Every slot of b1 holds the identifier, type and special kind it holds in b2.
SameTokens(b1, b2) ==
    \A r \in Rows, c \in Cols :
        /\ b1[r][c].id = b2[r][c].id
        /\ b1[r][c].type = b2[r][c].type
        /\ b1[r][c].special = b2[r][c].special

\* C5: when a detection pass of resolveBoard finds nothing and clears the
\* processing flag, the board that turn committed last holds no run of 3 or
\* more equal types and no MATCHED cell: findMatches on it is empty.
C5_TurnEndsOnSettledBoard ==
    last = "turnEnd" =>
        /\ ~isProcessing
        /\ findMatches(board) = {}
        /\ \A r \in Rows, c \in Cols : board[r][c].status # "MATCHED"

\* A turn that scored has ended.
C5_Witness == last = "turnEnd" /\ score > 0 /\ tasks = <<>>

\* C6: every turn converges: once the processing flag is set, a detection
\* pass finds nothing after finitely many passes and the flag returns to
\* false, whatever the refills draw.
C6_EveryTurnConverges == isProcessing ~> ~isProcessing

\* C7: at most one turn is in flight: while the processing flag is set (and
\* rendered), no swap, bomb or reshuffle is accepted, the bomb of the touch
\* handler included.
C7_NoActivationWhileProcessing ==
    last \in {"handleSwap", "bombClick", "bombTouch", "activateReshuffle"}
        => ~view.isProcessing

SwappedSlot(t, r, c) ==
    \/ (t.pos1.row = r /\ t.pos1.col = c)
    \/ (t.pos2.row = r /\ t.pos2.col = c)

C9_TwoRainbowsClearTheBoard ==
    [][ /\ (last' = "swapSpecials" /\ LastTask'.origin = "rainbows") =>
              /\ movesLeft' = movesLeft - 1
              /\ AllStatus(board', "MATCHED")
        /\ (last' = "specialResolve" /\ tasks[1].origin = "rainbows") =>
              /\ Cardinality(MarkedIds(board')) = GRID_ROWS * GRID_COLS
              /\ BoardIds(board') = BoardIds(tasks[1].pre)
        /\ (last' = "dropped" /\ tasks[1].origin = "rainbows" /\ tasks[1].pass = 1) =>
              BoardIds(board') \cap BoardIds(tasks[1].b) = {} ]_vars

\* The first pass after a swap of two RAINBOW cells has dropped the refill.
C9_Witness ==
    /\ last = "dropped" /\ tasks # <<>>
    /\ LastTask.origin = "rainbows" /\ LastTask.pass = 1
    /\ movesLeft = getLevelConfig(currentLevel).moves - 2

\* C10: the BOMB and REFRESH counters never go below 0.
C10_InventoryNonNegative == inventory.BOMB >= 0 /\ inventory.REFRESH >= 0

----------------------------------------------------------------------------
(* Claims about boards and identifiers.                                    *)

CellFields == {"id", "type", "special", "status", "row", "col", "visualRow", "visualCol"}

\* b has GRID_ROWS rows of GRID_COLS slots and a cell record in every slot.
FullBoard(b) ==
    /\ DOMAIN b = Rows
    /\ \A r \in Rows :
          /\ DOMAIN b[r] = Cols
          /\ \A c \in Cols :
                /\ DOMAIN b[r][c] = CellFields
                /\ b[r][c].status \in CellStatus
                /\ b[r][c].special \in SpecialType

\* The boards the program holds: the committed one, the one of the last
\* render and those the waiting continuations work on.
HeldBoards ==
    {board, view.board} \cup { tasks[i].b : i \in 1 .. Len(tasks) }
                        \cup { tasks[i].pre : i \in 1 .. Len(tasks) }

\* C11: every board committed or handed on during play (by
\* createInitialBoard, the swap, the clearing, applyGravity, the settling,
\* the swap back and the reshuffle) has GRID_ROWS rows of GRID_COLS cell
\* records; a cleared slot holds a cell with status MATCHED or EMPTY, never
\* nothing.
C11_EverySlotHoldsACell ==
    \A b \in HeldBoards : b # <<>> => FullBoard(b)

\* A refill has been dropped onto a board with cleared cells.
C11_Witness ==
    /\ last = "dropped"
    /\ FullBoard(board)
    /\ \E r \in Rows, c \in Cols : board[r][c].status = "DROPPING" /\ board[r][c].visualRow < 0
    /\ \E i \in 1 .. Len(tasks) : tasks[i].pc = "drop" /\ FullBoard(tasks[i].b)

\* The cleared cells of column c of b below row r.
ClearedBelow(b, r, c) ==
    { q \in Rows : q > r /\ b[q][c].status \in {"MATCHED", "EMPTY"} }

ClearedIn(b, c) == { q \in Rows : b[q][c].status \in {"MATCHED", "EMPTY"} }

----------------------------------------------------------------------------
(* Claims about the score of a pass.                                       *)

\* The natural matches m of b are one horizontal run of exactly four cells,
\* none of them special, and no cell of b is marked or expanded.
OneRunOfFour(b, m) ==
    /\ Cardinality(m) = 4
    /\ \E r \in Rows : \A id \in m : CellById(b, id).row = r
    /\ \A id \in m : CellById(b, id).special = "NONE"
    /\ MatchedIdsOfPass(b, 0) = m

\* C14: a pass at combo 0 and level 1 whose only natural match is one
\* horizontal run of exactly 4 equal cells, no special involved, forms one
\* group of size 4 classified COL_BLAST and adds exactly 120 points.
C14_RunOfFourScores120 ==
    [][ (/\ last' = "swapValid"
         /\ tasks[1].combo = 0 /\ tasks[1].level = 1
         /\ OneRunOfFour(tasks[1].b, findMatches(tasks[1].b))
         /\ score + 120 <= MaxScore)
        => LET groups == getConnectedGroups(tasks[1].b, findMatches(tasks[1].b)) IN
           /\ Len(groups) = 1
           /\ Len(groups[1]) = 4
           /\ classifyMatchGroup(groups[1]) = "COL_BLAST"
           /\ score' = score + 120 ]_vars

\* A swap at the start of level 1 has completed a row of four: 120 points
\* and a COL_BLAST cell in that row.
C14_Witness ==
    /\ last = "swapValid" /\ score = 120 /\ currentLevel = 1 /\ combo = 1
    /\ Cardinality(MarkedIds(board)) = 3
    /\ \E r \in Rows, c \in Cols :
          board[r][c].status = "CREATED" /\ board[r][c].special = "COL_BLAST"

----------------------------------------------------------------------------
(* Claims about the construction of a board and the level tables, checked  *)
(* under SpecArg.                                                          *)

\* Type t at slot (r, c) of b would be the third of a run to the left or above.
CompletesRun(b, r, c, t) ==
    \/ (c >= 2 /\ b[r][c - 1].type = t /\ b[r][c - 2].type = t)
    \/ (r >= 2 /\ b[r - 1][c].type = t /\ b[r - 2][c].type = t)

\* C15: for every allowed set of three or more ordinary types
\* createInitialBoard returns, and the board it returns has no horizontal
\* or vertical run of 3 equal types, only allowed types, every cell IDLE
\* with special NONE, and at every slot at most two types are rejected, so
\* one can always be placed.
C15_InitialBoardHasNoRun ==
    (fnOp = "createInitialBoard" /\ Len(fnOut.allowedTypes) >= 3) =>
        /\ fnOut.outcome = "returns"
        /\ FullBoard(fnOut.out)
        /\ \A r \in Rows, c \in Cols :
              /\ ~CompletesRun(fnOut.out, r, c, fnOut.out[r][c].type)
              /\ fnOut.out[r][c].type \in Drawable(fnOut.allowedTypes)
              /\ fnOut.out[r][c].status = "IDLE"
              /\ fnOut.out[r][c].special = "NONE"
              /\ fnOut.out[r][c].row = r /\ fnOut.out[r][c].col = c
              /\ Cardinality({ t \in Drawable(fnOut.allowedTypes) :
                                  CompletesRun(fnOut.out, r, c, t) }) <= 2
        /\ findMatches(fnOut.out) = {}

\* A board of three types was built on which a slot rejects two of them.
C15_Witness ==
    /\ fnOp = "createInitialBoard" /\ Len(fnOut.allowedTypes) = 3
    /\ fnOut.outcome = "returns"
    /\ \E r \in Rows, c \in Cols :
          Cardinality({ t \in Drawable(fnOut.allowedTypes) :
                           CompletesRun(fnOut.out, r, c, t) }) = 2

\* C16: createInitialBoard called with an empty set of allowed types ends
\* with a configuration error: it returns no board and does not run forever.
C16_EmptyTypeSetIsRejected ==
    (fnOp = "createInitialBoard" /\ Len(fnOut.allowedTypes) = 0) => fnOut.outcome = "throws"

\* C17: getLevelConfig gives targets 1000/3000/6000/12000/25000 and moves
\* 10/15/20/25/30 at levels 1 to 5, target 25000 + 10000 x (level - 4) and
\* moves 30 + 2 x (level - 4) at every level above 5, and both grow strictly
\* from each level >= 1 to the next.
C17_LevelConfigTable ==
    fnOp = "getLevelConfig" =>
        LET l == fnOut.level
            authoredTarget == <<1000, 3000, 6000, 12000, 25000>>
            authoredMoves == <<10, 15, 20, 25, 30>>
        IN  /\ fnOut.out.level = l
            /\ l <= 5 => /\ fnOut.out.targetScore = authoredTarget[l]
                         /\ fnOut.out.moves = authoredMoves[l]
            /\ l > 5 => /\ fnOut.out.targetScore = 25000 + (10000 * (l - 4))
                        /\ fnOut.out.moves = 30 + (2 * (l - 4))
            /\ getLevelConfig(l + 1).targetScore > fnOut.out.targetScore
            /\ getLevelConfig(l + 1).moves > fnOut.out.moves
            /\ l > 1 => /\ getLevelConfig(l - 1).targetScore < fnOut.out.targetScore
                        /\ getLevelConfig(l - 1).moves < fnOut.out.moves

\* The first generated level and the last authored one have been looked up.
C17_Witness ==
    /\ fnOp = "getLevelConfig" /\ fnOut.level = 6
    /\ fnOut.out.targetScore = 45000 /\ fnOut.out.moves = 34
    /\ getLevelConfig(5).targetScore = 25000

\* The result of getGemTypesForLevel is between 3 and 8 distinct ordinary
\* types, the wildcard type not among them, and has the size of its level.
GemTypesOfLevel(o) ==
    /\ Len(o.out) >= 3 /\ Len(o.out) <= 8
    /\ \A i, j \in 1 .. Len(o.out) : i # j => o.out[i] # o.out[j]
    /\ \A i \in 1 .. Len(o.out) : o.out[i] # "RAINBOW" /\ o.out[i] = GEM_TYPES_ARRAY[i]
    /\ (o.level = 1 /\ ~o.given) => Len(o.out) = 5
    /\ o.level = 2 => Len(o.out) = 6
    /\ o.level = 3 => Len(o.out) = 7
    /\ o.level >= 4 => Len(o.out) = 8

\* C18 as stated: for every level >= 1 and every count override
\* getGemTypesForLevel returns 3 to 8 distinct ordinary types, never
\* RAINBOW: 5 at level 1 without override, the override clamped to 3..8 at
\* level 1, 6 at level 2, 7 at level 3, 8 from level 4 on, the override
\* ignored at levels other than 1.
C18_GemTypesPerLevel ==
    fnOp = "getGemTypesForLevel" =>
        /\ GemTypesOfLevel(fnOut)
        /\ (fnOut.level = 1 /\ fnOut.given) => Len(fnOut.out) = Max2(3, Min2(8, fnOut.n))

\* C18, amended: as above, with the override clamped to 3..8 at level 1
\* when it is not 0; an override of 0 counts as none and gives 5 types.
C18_GemTypesPerLevelNonZero ==
    fnOp = "getGemTypesForLevel" =>
        /\ GemTypesOfLevel(fnOut)
        /\ (fnOut.level = 1 /\ fnOut.given /\ fnOut.n # 0)
              => Len(fnOut.out) = Max2(3, Min2(8, fnOut.n))
        /\ (fnOut.level = 1 /\ fnOut.given /\ fnOut.n = 0) => Len(fnOut.out) = 5

\* Level 1 was asked for with an override above 8, which was clamped.
C18_Witness ==
    /\ fnOp = "getGemTypesForLevel" /\ fnOut.level = 1 /\ fnOut.given
    /\ fnOut.n = MaxCount /\ Len(fnOut.out) = 8

----------------------------------------------------------------------------
(* Claims about the blast functions, checked under SpecArg.                *)

\* The in-bounds positions of the 3x3 square around (row, col).
Square3(row, col) ==
    { p \in AllPositions : p[1] >= row - 1 /\ p[1] <= row + 1
                           /\ p[2] >= col - 1 /\ p[2] <= col + 1 }

\* The elements of the sequence q, and q has no element twice.
Elements(q) == { q[i] : i \in 1 .. Len(q) }

NoRepeat(q) == Cardinality(Elements(q)) = Len(q)

\* C19: for every board and cell position getSpecialBlastTargets returns
\* exactly the 8 cells of the cell's row for ROW_BLAST, the 8 cells of its
\* column for COL_BLAST, the in-bounds cells of the 3x3 square around it for
\* AREA_BLAST (4, 6 or 9 cells) and the empty list for NONE.
C19_BlastTargets ==
    fnOp = "getSpecialBlastTargets" =>
        LET row == fnOut.center.row
            col == fnOut.center.col
        IN  /\ fnOut.special = "ROW_BLAST" =>
                  /\ Len(fnOut.out) = 8 /\ NoRepeat(fnOut.out)
                  /\ Elements(fnOut.out) = { inBoard[row][c] : c \in Cols }
            /\ fnOut.special = "COL_BLAST" =>
                  /\ Len(fnOut.out) = 8 /\ NoRepeat(fnOut.out)
                  /\ Elements(fnOut.out) = { inBoard[r][col] : r \in Rows }
            /\ fnOut.special = "AREA_BLAST" =>
                  /\ Len(fnOut.out) \in {4, 6, 9} /\ NoRepeat(fnOut.out)
                  /\ Elements(fnOut.out) = { inBoard[p[1]][p[2]] : p \in Square3(row, col) }
            /\ fnOut.special = "NONE" => fnOut.out = <<>>

\* An AREA_BLAST cell in a corner gave four targets.
C19_Witness ==
    /\ fnOp = "getSpecialBlastTargets" /\ fnOut.special = "AREA_BLAST"
    /\ fnOut.center = [row |-> GRID_ROWS - 1, col |-> 0]
    /\ Len(fnOut.out) = 4

\* C20: for every board and in-bounds centre getBombAffectedCells returns
\* the identifiers of the in-bounds cells of the 3x3 square around the
\* centre, each once, whatever their type, status or special kind, and they
\* are the identifiers of what getSpecialBlastTargets returns for an
\* AREA_BLAST cell at that position.
C20_BombCellsAreTheSquare ==
    fnOp = "getBombAffectedCells" =>
        LET row == fnOut.center.row
            col == fnOut.center.col
            area == getSpecialBlastTargets(inBoard,
                        [inBoard[row][col] EXCEPT !.special = "AREA_BLAST"], FnRnd5)
        IN  /\ NoRepeat(fnOut.out)
            /\ Elements(fnOut.out) = { inBoard[p[1]][p[2]].id : p \in Square3(row, col) }
            /\ fnOut.out = [i \in 1 .. Len(area) |-> area[i].id]

\* The bomb was dropped on an edge, on a square holding a cleared cell and a
\* special one: six identifiers.
C20_Witness ==
    /\ fnOp = "getBombAffectedCells" /\ Len(fnOut.out) = 6
    /\ \E p, q \in Square3(fnOut.center.row, fnOut.center.col) :
          /\ inBoard[p[1]][p[2]].status \in {"MATCHED", "EMPTY"}
          /\ inBoard[q[1]][q[2]].special # "NONE"

----------------------------------------------------------------------------
(* Claims about one pass of resolveBoard, checked on the steps of the      *)
(* continuations that run it.  In such a step tasks[1] is the continuation *)
(* that runs and the last of tasks' is what it waits as afterwards.        *)

\* The step runs a pass of resolveBoard that clears something.
ClearingPass ==
    /\ tasks # <<>> /\ tasks' # <<>>
    /\ last' \in {"swapValid", "specialResolve", "bombResolve", "cascade"}
    /\ tasks'[Len(tasks')].pc = "pop"

\* currentBoard and lastSwapTarget of that pass.
PassBoard == IF tasks[1].pc = "drop" THEN SettledBoard(tasks[1].b) ELSE tasks[1].b

PassTarget == IF tasks[1].pc = "swap" THEN tasks[1].pos2 ELSE NoTarget

\* The groups of the natural matches of the pass that make a special.
SpecialGroups ==
    LET groups == getConnectedGroups(PassBoard, findMatches(PassBoard))
    IN  { groups[i] : i \in { j \in 1 .. Len(groups) : classifyMatchGroup(groups[j]) # "NONE" } }

\* The cell of group at the position pos, if there is one.
AtPosition(group, pos) ==
    { group[i] : i \in { j \in 1 .. Len(group) :
                            group[j].row = pos.row /\ group[j].col = pos.col } }

\* The cell the claim names for a group: the one at the swap destination if
\* the group has it, else the middle element group[floor(size / 2)].
AnchorOrMiddle(group, pos) ==
    IF AtPosition(group, pos) # {} THEN CHOOSE x \in AtPosition(group, pos) : TRUE
    ELSE group[(Len(group) \div 2) + 1]

\* The cell at the place of x on the board b is x turned into special kind k.
BecameSpecial(b, x, k) ==
    /\ b[x.row][x.col].id = x.id
    /\ b[x.row][x.col].status = "CREATED"
    /\ b[x.row][x.col].special = k

\* C21: when a group is classified as a special kind, the cell that becomes
\* the special is the swap destination if it is in the group, and else
\* (destination given but not in the group, or none given) the middle
\* element of the group in traversal order.
C21_SpecialAtAnchorOrMiddle ==
    [][ ClearingPass =>
          \A group \in SpecialGroups :
              BecameSpecial(board', AnchorOrMiddle(group, PassTarget), classifyMatchGroup(group)) ]_vars

\* The cells the pass turns into specials.
ChosenCells == { Candidate(group, PassTarget) : group \in SpecialGroups }

ChosenIds == { x.id : x \in ChosenCells }

\* The matched sets the pass can reach: one for each seed of the draws of
\* an expanded RAINBOW.
PassMatchedSets == { MatchedIdsOfPass(PassBoard, rnd) : rnd \in DrawSeeds(PassBoard) }

\* The step applies gravity to the cleared board of a pass (tasks[1].b).
GravityStep == tasks # <<>> /\ tasks[1].pc = "pop" /\ last' = "dropped"

\* The step settles the dropped board of a pass (tasks[1].b).
SettleStep == tasks # <<>> /\ tasks[1].pc = "drop" /\ last' \in {"cascade", "turnEnd"}

\* The cells of b with the status st.
CellsWithStatus(b, st) ==
    { b[p[1]][p[2]] : p \in { q \in Rows \X Cols : b[q[1]][q[2]].status = st } }

\* C22: in the clearing step of a pass each cell chosen as a new special
\* gets status CREATED and keeps its identifier, every other cell of the
\* expanded matched set gets status MATCHED and the cells outside it are
\* unchanged; after gravity and settling the CREATED cells are on the board
\* with their identifier and special kind, also those in a blast area, and
\* the identifiers of the MATCHED cells are not.
C22_CreatedCellsSurvive ==
    [][ /\ ClearingPass =>
              \A pb \in {PassBoard} : \E ids \in PassMatchedSets :
              \A chosen \in {{ <<Candidate(group, PassTarget).id, classifyMatchGroup(group)>> :
                                  group \in SpecialGroups }} :
              \A r \in Rows, c \in Cols :
                  LET x == pb[r][c] IN
                  IF \E ch \in chosen : ch[1] = x.id
                  THEN /\ board'[r][c].id = x.id
                       /\ board'[r][c].status = "CREATED"
                       /\ <<x.id, board'[r][c].special>> \in chosen
                  ELSE IF x.id \in ids
                  THEN board'[r][c] = [x EXCEPT !.status = "MATCHED"]
                  ELSE board'[r][c] = x
        /\ GravityStep =>
              \A settled \in {SettledBoard(board')} :
              /\ \A x \in CellsWithStatus(tasks[1].b, "CREATED") :
                    \E r \in Rows, c \in Cols :
                        /\ settled[r][c].id = x.id
                        /\ settled[r][c].special = x.special
                        /\ settled[r][c].type = x.type
              /\ \A x \in CellsWithStatus(tasks[1].b, "MATCHED") :
                    x.id \notin BoardIds(settled)
        /\ SettleStep =>
              \A settled \in {IF last' = "turnEnd" THEN board' ELSE PassBoard} :
              \A r \in Rows, c \in Cols :
                  /\ settled[r][c].id = tasks[1].b[r][c].id
                  /\ settled[r][c].special = tasks[1].b[r][c].special
                  /\ settled[r][c].type = tasks[1].b[r][c].type ]_vars

\* A pass has cleared a group and turned one of its cells into a special
\* that its own matched set contains, and gravity has dropped the board.
C22_Witness ==
    /\ last = "dropped"
    /\ \E r \in Rows, c \in Cols :
          board[r][c].special # "NONE" /\ board[r][c].status \in {"CREATED", "DROPPING"}
    /\ \E r \in Rows, c \in Cols : board[r][c].visualRow < 0

\* The identifiers of the cells a ROW_BLAST, COL_BLAST or AREA_BLAST cell x
\* of b blasts.
BlastArea(b, x) ==
    IF x.special = "ROW_BLAST" THEN { b[x.row][c].id : c \in Cols }
    ELSE IF x.special = "COL_BLAST" THEN { b[r][x.col].id : r \in Rows }
    ELSE { b[p[1]][p[2]].id : p \in Square3(x.row, x.col) }

\* C23: the expansion of a pass ends with a closed matched set: for every
\* cell of it that carries ROW_BLAST, COL_BLAST or AREA_BLAST all cells of
\* its blast area are in it too (and cleared by the pass), through chains
\* of specials, and every special is expanded at most once.
C23_ExpansionIsClosed ==
    [][ ClearingPass =>
          \A pb \in {PassBoard} : \E rnd \in DrawSeeds(pb) :
          \A ids \in {MatchedIdsOfPass(pb, rnd)} : \A det \in {DetonatedOfPass(pb, rnd)} :
              /\ \A r \in Rows, c \in Cols :
                    (pb[r][c].id \in ids
                       /\ pb[r][c].special \in {"ROW_BLAST", "COL_BLAST", "AREA_BLAST"})
                    => /\ BlastArea(pb, pb[r][c]) \subseteq ids
                       /\ pb[r][c].id \in Elements(det)
              /\ \A r \in Rows, c \in Cols :
                    pb[r][c].id \in ids => board'[r][c].status \in {"MATCHED", "CREATED"}
              /\ NoRepeat(det)
              /\ Elements(det) \subseteq ids \cap SpecialIds(pb) ]_vars

\* The swap of the AREA_BLAST at (6,3) with the COL_BLAST at (5,3) has been
\* resolved: the COL_BLAST at (5,6) has cleared its column, in it the
\* AREA_BLAST at (0,6), and that one the cell at (1,7).
C23_Witness ==
    /\ last = "specialResolve"
    /\ board[5][6].special = "COL_BLAST" /\ board[5][6].status = "MATCHED"
    /\ board[0][6].special = "AREA_BLAST" /\ board[0][6].status = "MATCHED"
    /\ board[1][7].status = "MATCHED" /\ board[2][7].status # "MATCHED"

\* floor(size x 20 x sizeMultiplier x comboMultiplier x levelMultiplier) with
\* sizeMultiplier 1, 3/2, 3, comboMultiplier 1 + currentCombo x (0.5 + 0.1 x
\* (level - 1)) and levelMultiplier 1 + 0.5 x (level - 1), in exact arithmetic.
ExactGroupPoints(size, currentCombo, level) ==
    (size * 20 * (IF size >= 5 THEN 6 ELSE IF size = 4 THEN 3 ELSE 2)
          * (10 + (currentCombo * (5 + (level - 1)))) * (2 + (level - 1))) \div 40

\* floor(d x 20 x levelMultiplier x comboMultiplier), in exact arithmetic.
ExactDebrisPoints(d, currentCombo, level) ==
    (d * 20 * (2 + (level - 1)) * (10 + (currentCombo * (5 + (level - 1))))) \div 20

\* The points the claim gives a pass on the board b with the matched set ids.
ExactPassPoints(b, ids, currentCombo, level) ==
    LET groups == getConnectedGroups(b, findMatches(b))
        d == Cardinality(ids) - SumSeq([i \in 1 .. Len(groups) |-> Len(groups[i])], 1)
    IN  SumSeq([i \in 1 .. Len(groups) |-> ExactGroupPoints(Len(groups[i]), currentCombo, level)], 1)
          + ExactDebrisPoints(d, currentCombo, level)

\* C24: the points a clearing pass adds are the sum over the connected
\* groups of its natural matches of floor(size x 20 x sizeMultiplier x
\* comboMultiplier x levelMultiplier), sizeMultiplier 1 / 1.5 / 3 for size
\* 3 / 4 / >= 5, plus floor(d x 20 x levelMultiplier x comboMultiplier) for
\* the d matched cells in no natural group; d and the total are never
\* negative.  (The score is followed up to MaxScore.)
C24_PassPoints ==
    [][ ClearingPass =>
          \A pb \in {PassBoard} : \E rnd \in DrawSeeds(pb) :
          \A ids \in {MatchedIdsOfPass(pb, rnd)} :
          \A pts \in {ExactPassPoints(pb, ids, tasks[1].combo, tasks[1].level)} :
              /\ Cardinality(ids) >= Cardinality(findMatches(pb))
              /\ pts >= 0
              /\ score' >= score
              /\ score + pts <= MaxScore => score' = score + pts ]_vars

----------------------------------------------------------------------------
(* Claims about the combo counter.                                         *)

\* C25: within a turn the combo counter grows by exactly 1 with each pass
\* that clears something and is carried into the next pass: a turn that
\* starts with combo c has its k-th clearing pass (k = 0, 1, ...) scored
\* with combo c + k, and the pass that finds no match leaves the counter as
\* it is.  (The counter is followed up to MaxCombo.)
C25_ComboGrowsByOnePerPass ==
    [][ /\ last' \in {"handleSwap", "bombClick", "bombTouch"} =>
              tasks'[Len(tasks')].combo = combo
        /\ (tasks # <<>> /\ last' \in {"swapSpecials", "swapRainbow"}) =>
              tasks'[Len(tasks')].combo = tasks[1].combo /\ combo' = combo
        /\ ClearingPass =>
              \A pb \in {PassBoard} : \E rnd \in DrawSeeds(pb) :
                  /\ score' = CapScore(score + TurnPoints(pb, MatchedIdsOfPass(pb, rnd),
                                                         tasks[1].combo, tasks[1].level))
                  /\ combo' = CapCombo(tasks[1].combo + 1)
                  /\ tasks'[Len(tasks')].combo = combo'
                  /\ tasks'[Len(tasks')].pass = Min2(tasks[1].pass + 1, MaxPass)
        /\ GravityStep =>
              tasks'[Len(tasks')].combo = tasks[1].combo /\ combo' = combo
        /\ (SettleStep /\ last' = "turnEnd") => combo' = combo /\ score' = score ]_vars

\* The second clearing pass of a turn that started with combo 0 has run.
C25_Witness ==
    /\ last = "cascade" /\ combo = 2
    /\ tasks # <<>> /\ tasks[Len(tasks)].pass = 2 /\ tasks[Len(tasks)].combo = 2
    /\ tasks[Len(tasks)].origin = "swap"

\* C26: during a level the combo counter goes back to 0 only when a fresh
\* player action ends with nothing cleared, i.e. on an invalid swap, which
\* does set it to 0; no other event between two player actions does.
C26_ComboResetOnlyByInvalidSwap ==
    [][ /\ (combo > 0 /\ combo' = 0 /\ last' # "startLevel")
              => last' \in {"swapInvalid", "swapReverted"}
        /\ last' = "swapReverted" => combo' = 0 ]_vars

----------------------------------------------------------------------------
(* Claims about the boards a pass commits.                                 *)

\* The cell x at rest: status IDLE, shown where it is.
AtRest(x) == [x EXCEPT !.status = "IDLE", !.visualRow = x.row, !.visualCol = x.col]

\* C27: a clearing pass commits its boards in the order cleared board
\* (MATCHED and CREATED cells), dropped board (applyGravity of the cleared
\* board), settled board, and the next detection runs on exactly that
\* settled board, not before it is committed.
C27_BoardsCommittedInOrder ==
    [][ /\ ClearingPass =>
              /\ tasks[1].pc \in {"swap", "special", "bomb", "drop"}
              /\ tasks'[Len(tasks')].b = board'
              /\ \E r \in Rows, c \in Cols : board'[r][c].status \in {"MATCHED", "CREATED"}
        /\ last' = "dropped" =>
              /\ tasks # <<>> /\ tasks[1].pc = "pop"
              /\ \E rnd \in Refills : board' = applyGravity(tasks[1].b, tasks[1].types, rnd)
              /\ tasks'[Len(tasks')].pc = "drop"
              /\ tasks'[Len(tasks')].b = board'
        /\ last' \in {"cascade", "turnEnd"} =>
              /\ tasks # <<>> /\ tasks[1].pc = "drop"
              /\ last' = "turnEnd" =>
                    \A r \in Rows, c \in Cols : board'[r][c] = AtRest(tasks[1].b[r][c])
              /\ last' = "cascade" =>
                    /\ tasks'[Len(tasks')].pc = "pop"
                    /\ \A r \in Rows, c \in Cols :
                          /\ board'[r][c].id = tasks[1].b[r][c].id
                          /\ board'[r][c].status \notin {"MATCHED", "CREATED"}
                                => board'[r][c] = AtRest(tasks[1].b[r][c]) ]_vars

\* A turn has gone through cleared, dropped and settled board twice, and
\* the second pass has cleared cells of the first refill.
C27_Witness ==
    /\ last = "dropped"
    /\ tasks # <<>> /\ tasks[Len(tasks)].pc = "drop" /\ tasks[Len(tasks)].pass = 2
    /\ \E r \in Rows, c \in Cols : board[r][c].status = "DROPPING"

\* C28: every settled board has all cells IDLE and shown where they are, so
\* no cell carries MATCHED, EMPTY, DROPPING, CREATED or SWAPPING into the
\* next detection pass or into the idle state after the turn.
C28_SettledBoardIsAtRest ==
    [][ SettleStep =>
          \A settled \in {PassBoard} :
              /\ \A r \in Rows, c \in Cols :
                    /\ settled[r][c].status = "IDLE"
                    /\ settled[r][c].row = r /\ settled[r][c].col = c
                    /\ settled[r][c].visualRow = r /\ settled[r][c].visualCol = c
              /\ last' = "turnEnd" => (board' = settled /\ ~isProcessing') ]_vars

\* A turn has ended on the settled board of its last refill.
C28_Witness ==
    /\ last = "turnEnd" /\ ~isProcessing /\ score > 0
    /\ AllStatus(board, "IDLE")
    /\ \E r \in Rows, c \in Cols : board[r][c].id > GRID_ROWS * GRID_COLS

----------------------------------------------------------------------------
(* Claims about the refill of applyGravity.                                *)

\* The cells of column c of board b whose identifier is not in board a.
FreshIn(a, b, c) == { r \in Rows : b[r][c].id \notin BoardIds(a) }

\* C29: for every column applyGravity places exactly as many freshly
\* generated tokens as the column had MATCHED or EMPTY cells, in the
\* top-most rows of the column, each with a type of the allowed set, special
\* NONE and status DROPPING, and its result has no MATCHED or EMPTY cell.
C29_RefillFillsTheTop ==
    fnOp = "applyGravity" =>
        /\ \A c \in Cols :
              \A n \in {Cardinality(ClearedIn(inBoard, c))} :
                  /\ FreshIn(inBoard, fnOut, c) = 0 .. (n - 1)
                  /\ \A r \in 0 .. (n - 1) :
                        /\ \E i \in 1 .. Len(FnAllowedTypes) :
                              fnOut[r][c].type = FnAllowedTypes[i]
                        /\ fnOut[r][c].special = "NONE"
                        /\ fnOut[r][c].status = "DROPPING"
                        /\ fnOut[r][c].row = r /\ fnOut[r][c].col = c
        /\ \A r \in Rows, c \in Cols : fnOut[r][c].status \notin {"MATCHED", "EMPTY"}
        /\ \A r1, r2 \in Rows, c1, c2 \in Cols :
              fnOut[r1][c1].id = fnOut[r2][c2].id => (r1 = r2 /\ c1 = c2)

\* Gravity was applied to a board with a column without a cleared cell, a
\* column with both MATCHED and EMPTY cells apart from each other, and the
\* refill drew two different types.
C29_Witness ==
    /\ fnOp = "applyGravity"
    /\ \E c \in Cols : ClearedIn(inBoard, c) = {}
    /\ \E c \in Cols, r1, r2, r3 \in Rows :
          /\ r1 < r2 /\ r2 < r3
          /\ inBoard[r1][c].status = "MATCHED"
          /\ inBoard[r2][c].status \notin {"MATCHED", "EMPTY"}
          /\ inBoard[r3][c].status = "EMPTY"
          /\ FreshIn(inBoard, fnOut, c) = 0 .. (Cardinality(ClearedIn(inBoard, c)) - 1)
    /\ \E r1, r2 \in Rows, c1, c2 \in Cols :
          /\ fnOut[r1][c1].id \notin BoardIds(inBoard)
          /\ fnOut[r2][c2].id \notin BoardIds(inBoard)
          /\ fnOut[r1][c1].type # fnOut[r2][c2].type

----------------------------------------------------------------------------
(* Claims about the swap of two specials.                                  *)

\* The first pass of a turn that swapped two specials, neither a wildcard.
SpecialsPass ==
    /\ tasks # <<>> /\ tasks[1].pc = "special" /\ tasks[1].origin = "specials"
    /\ last' = "specialResolve"
    /\ \A p \in {tasks[1].pos1, tasks[1].pos2} :
          tasks[1].pre[p.row][p.col].special \in {"ROW_BLAST", "COL_BLAST", "AREA_BLAST"}

\* The identifiers of the in-bounds cells of b within d rows and e columns
\* of pos.
Around(b, pos, d, e) ==
    { b[r][c].id : r \in { x \in Rows : x >= pos.row - d /\ x <= pos.row + d },
                   c \in { y \in Cols : y >= pos.col - e /\ y <= pos.col + e } }

\* The cells the swap of cell1 at pos1 with cell2 at pos2 on board b has to
\* clear.
SwapBlast(b, pos1, pos2) ==
    LET cell1 == b[pos1.row][pos1.col]
        cell2 == b[pos2.row][pos2.col]
    IN  BlastArea(b, cell1) \cup BlastArea(b, cell2)
          \cup (IF cell1.special = "AREA_BLAST" /\ cell2.special = "AREA_BLAST"
                THEN Around(b, pos2, 2, 2)
                ELSE IF cell1.special = "AREA_BLAST" \/ cell2.special = "AREA_BLAST"
                THEN Around(b, pos2, 1, GRID_COLS) \cup Around(b, pos2, GRID_ROWS, 1)
                ELSE {})

\* C30: when two non-wildcard specials are swapped, every cell of the blast
\* area of either of them is cleared in the first pass, with the in-bounds
\* cells of the 5x5 square around the swap destination for two areas and the
\* cells of the three rows and three columns around it for a line and an
\* area, and the turn consumes one move.
C30_SpecialSwapClears ==
    [][ /\ SpecialsPass =>
              \A ids \in {SwapBlast(tasks[1].pre, tasks[1].pos1, tasks[1].pos2)} :
                  /\ \A r \in Rows, c \in Cols :
                        board'[r][c].id \in ids => board'[r][c].status = "MATCHED"
                  /\ ids \subseteq BoardIds(board')
                  /\ movesLeft' = movesLeft
        /\ last' = "swapSpecials" => movesLeft' = movesLeft - 1
        /\ (tasks # <<>> /\ tasks[1].origin = "specials"
              /\ last' \in {"dropped", "cascade", "turnEnd"}) => movesLeft' = movesLeft ]_vars

\* C30 (amended): when two non-wildcard specials are swapped, every cell of
\* the blast area of either of them, of the 5x5 square (two areas) or of
\* the three rows and three columns (a line and an area) around the swap
\* destination is cleared in the first pass, except a cell that the pass
\* chooses as the new special of a run of four or more completed by the
\* swap: that cell gets status CREATED and stays; the turn consumes one move.
C30_SpecialSwapClearsOrCreates ==
    [][ /\ SpecialsPass =>
              \A ids \in {SwapBlast(tasks[1].pre, tasks[1].pos1, tasks[1].pos2)} :
              \A chosen \in {ChosenIds} :
                  /\ \A r \in Rows, c \in Cols :
                        board'[r][c].id \in ids =>
                            board'[r][c].status =
                                IF board'[r][c].id \in chosen THEN "CREATED" ELSE "MATCHED"
                  /\ ids \subseteq BoardIds(board')
                  /\ movesLeft' = movesLeft
        /\ last' = "swapSpecials" => movesLeft' = movesLeft - 1
        /\ (tasks # <<>> /\ tasks[1].origin = "specials"
              /\ last' \in {"dropped", "cascade", "turnEnd"}) => movesLeft' = movesLeft ]_vars

\* Two areas near the lower edge were swapped and the pass has cleared the
\* in-bounds part of the 5x5 square, two columns away from the destination.
C30_Witness ==
    /\ last = "specialResolve"
    /\ tasks # <<>> /\ tasks[Len(tasks)].origin = "specials"
    /\ \E r \in Rows, c \in Cols :
          /\ \A x \in Rows, y \in Cols :
                (x >= r - 2 /\ x <= r + 2 /\ y >= c - 2 /\ y <= c + 2)
                    => board[x][y].status = "MATCHED"
          /\ r + 2 >= GRID_ROWS
    /\ movesLeft = getLevelConfig(1).moves - 7

----------------------------------------------------------------------------
(* Claims about the swaps of a wildcard.                                   *)

\* The first pass of a turn that swapped a RAINBOW with another special
\* that is no RAINBOW.
WildcardSpecialPass ==
    /\ tasks # <<>> /\ tasks[1].pc = "special" /\ tasks[1].origin = "specials"
    /\ last' = "specialResolve"
    /\ Cardinality({ p \in {tasks[1].pos1, tasks[1].pos2} :
                        tasks[1].pre[p.row][p.col].special = "RAINBOW" }) = 1

\* The two swapped cells of the running turn, as they were before the swap.
SwappedWildcard ==
    The({ tasks[1].pre[p.row][p.col] : p \in { q \in {tasks[1].pos1, tasks[1].pos2} :
                                                  tasks[1].pre[q.row][q.col].special = "RAINBOW" } })

SwappedOther ==
    The({ tasks[1].pre[p.row][p.col] : p \in { q \in {tasks[1].pos1, tasks[1].pos2} :
                                                  tasks[1].pre[q.row][q.col].special # "RAINBOW" } })

\* The cells of board b of type t.
CellsOfType(b, t) ==
    { b[p[1]][p[2]] : p \in { q \in Rows \X Cols : b[q[1]][q[2]].type = t } }

\* C31: when a wildcard is swapped with another special, every cell of the
\* other token's type is given that token's special kind and is cleared in
\* the first pass together with its blast area, and the wildcard is cleared.
C31_WildcardSpecialClears ==
    [][ WildcardSpecialPass =>
          \A other \in {SwappedOther} : \A pb \in {PassBoard} :
          \A same \in {CellsOfType(pb, other.type)} :
              /\ \A x \in same : x.special = other.special /\ x.status = "MATCHED"
              /\ \A ids \in {{ x.id : x \in same } \cup {SwappedWildcard.id}
                                \cup UNION { BlastArea(pb, x) : x \in same }} :
                    \A r \in Rows, c \in Cols :
                        board'[r][c].id \in ids => board'[r][c].status = "MATCHED" ]_vars

\* C31 (amended): when a wildcard is swapped with another special, every
\* cell of the other token's type is given that token's special kind and
\* marked, and the first pass clears all of them, their blast areas and
\* the wildcard, except a cell the pass chooses as the new special of a
\* run of four or more completed by the swap: that cell gets status CREATED
\* and stays.
C31_WildcardSpecialClearsOrCreates ==
    [][ WildcardSpecialPass =>
          \A other \in {SwappedOther} : \A pb \in {PassBoard} :
          \A same \in {CellsOfType(pb, other.type)} : \A chosen \in {ChosenIds} :
              /\ \A x \in same : x.special = other.special /\ x.status = "MATCHED"
              /\ \A ids \in {{ x.id : x \in same } \cup {SwappedWildcard.id}
                                \cup UNION { BlastArea(pb, x) : x \in same }} :
                    \A r \in Rows, c \in Cols :
                        board'[r][c].id \in ids =>
                            board'[r][c].status =
                                IF board'[r][c].id \in chosen THEN "CREATED" ELSE "MATCHED" ]_vars

\* A wildcard was swapped with a line or area special and the pass has
\* cleared the wildcard and five or more cells that carry one special kind.
C31_Witness ==
    /\ last = "specialResolve"
    /\ tasks # <<>> /\ tasks[Len(tasks)].origin = "specials"
    /\ \E r \in Rows, c \in Cols :
          board[r][c].special = "RAINBOW" /\ board[r][c].status = "MATCHED"
    /\ \E k \in {"ROW_BLAST", "COL_BLAST", "AREA_BLAST"} :
          Cardinality({ p \in Rows \X Cols : /\ board[p[1]][p[2]].special = k
                                             /\ board[p[1]][p[2]].status = "MATCHED" }) >= 5

----------------------------------------------------------------------------
(* Claims about the wildcard token.                                        *)

\* The identifiers of the cells of b that are wildcards by type or kind.
WildcardsOf(b) ==
    IF DOMAIN b = {} THEN {}
    ELSE { b[p[1]][p[2]].id :
             p \in { q \in Rows \X Cols : \/ b[q[1]][q[2]].special = "RAINBOW"
                                          \/ b[q[1]][q[2]].type = "RAINBOW" } }

\* The wildcards on the boards the program holds: the committed one, the
\* rendered one and those of the waiting continuations.
Wildcards == UNION { WildcardsOf(b) : b \in HeldBoards }

\* C32: on every committed board a cell has type RAINBOW if and only if its
\* special kind is RAINBOW, and a wildcard only comes from the clearing
\* step, as the chosen cell of a group of five or more in one row or one
\* column, never from initial generation, refill or reshuffle.
C32_WildcardTypeAndOrigin ==
    [][ DOMAIN board' # {} =>
        /\ \A r \in Rows, c \in Cols :
              (board'[r][c].type = "RAINBOW") <=> (board'[r][c].special = "RAINBOW")
        /\ last' \in {"startLevel", "reshuffled"} => WildcardsOf(board') = {}
        /\ \A id \in WildcardsOf(board') \ Wildcards :
              /\ ClearingPass
              /\ \E group \in SpecialGroups :
                    /\ Candidate(group, PassTarget).id = id
                    /\ Len(group) >= 5
                    /\ \/ Cardinality({ group[i].row : i \in 1 .. Len(group) }) = 1
                       \/ Cardinality({ group[i].col : i \in 1 .. Len(group) }) = 1 ]_vars

----------------------------------------------------------------------------
(* Claims about the start and the end of a level.                          *)

\* The level startLevel is called with by the button of the shown screen:
\* 1 on the start screen, the next level after LEVEL_COMPLETE, the same
\* level after GAME_OVER.
LevelAsked ==
    IF view.gamePhase = "START" THEN 1
    ELSE IF view.gamePhase = "LEVEL_COMPLETE" THEN view.currentLevel + 1
    ELSE view.currentLevel

\* C33: startLevel(n) leaves score 0, combo 0, the moves of
\* getLevelConfig(n), inventory BOMB 2 and REFRESH 2, no active tool, phase
\* PLAYING and a board of createInitialBoard over getGemTypesForLevel(n)
\* (with the slider value of the render at level 1): full, at rest, without
\* a run, of those types only; and the level ends on the target score of
\* level n.
C33_StartLevelIsFresh ==
    [][ /\ last' = "startLevel" =>
              \A n \in {LevelAsked} :
              \A types \in {getGemTypesForLevel(n, IF n = 1 THEN view.level1GemCount ELSE 0)} :
                  /\ currentLevel' = n
                  /\ score' = 0 /\ combo' = 0
                  /\ movesLeft' = getLevelConfig(n).moves
                  /\ inventory' = [BOMB |-> 2, REFRESH |-> 2]
                  /\ activeTool' = "null"
                  /\ gamePhase' = "PLAYING"
                  /\ FullBoard(board')
                  /\ findMatches(board') = {}
                  /\ \A r \in Rows, c \in Cols :
                        /\ board'[r][c].status = "IDLE" /\ board'[r][c].special = "NONE"
                        /\ \E i \in 1 .. Len(types) : board'[r][c].type = types[i]
        /\ (gamePhase = "PLAYING" /\ gamePhase' \in {"LEVEL_COMPLETE", "GAME_OVER"}) =>
              /\ currentLevel' = currentLevel
              /\ gamePhase' = "LEVEL_COMPLETE"
                    <=> score' >= getLevelConfig(currentLevel).targetScore
        /\ (gamePhase = "PLAYING" /\ gamePhase' = "PLAYING") =>
              score' < getLevelConfig(currentLevel').targetScore ]_vars

\* Level 2 has been started from the LEVEL_COMPLETE screen of level 1, with
\* the tools of level 1 used before.
C33_Witness ==
    /\ last = "startLevel" /\ currentLevel = 2
    /\ score = 0 /\ movesLeft = getLevelConfig(2).moves
    /\ inventory = [BOMB |-> 2, REFRESH |-> 2]

\* A continuation has run.
ContinuationStep ==
    /\ tasks # <<>>
    /\ last' \in {"swapValid", "swapInvalid", "swapReverted", "swapSpecials", "swapRainbow",
                  "specialResolve", "bombResolve", "dropped", "cascade", "turnEnd",
                  "reshuffled"}

\* C34: after startLevel the board, the score and the combo of the new
\* level are changed only by actions accepted after that start: a
\* continuation of a turn of before the start, still waiting on its
\* animation delay, changes none of them.
C34_OldCascadeLeavesNewLevelAlone ==
    [][ (ContinuationStep /\ tasks[1].old) =>
            (board' = board /\ score' = score /\ combo' = combo) ]_vars

ValidSwapStep == last' \in {"swapValid", "swapSpecials", "swapRainbow"}

\* C36: the move counter is never negative; the continuation of an accepted
\* swap that is valid takes exactly 1 from it, and no other step of a turn
\* (cascade passes, bomb, reshuffle, invalid swap and its revert) changes it.
C36_MovesCountValidSwaps ==
    [][ /\ movesLeft' >= 0
        /\ ValidSwapStep => movesLeft' = movesLeft - 1
        /\ (~ValidSwapStep /\ last' # "startLevel") => movesLeft' = movesLeft ]_vars

\* The step runs the continuation of a swap of one RAINBOW with a cell
\* that carries no special.
WildcardSwapDue ==
    /\ tasks # <<>> /\ tasks[1].pc = "swap"
    /\ last' \in {"swapValid", "swapInvalid", "swapSpecials", "swapRainbow"}
    /\ \E p \in {tasks[1].pos1, tasks[1].pos2} : \E q \in {tasks[1].pos1, tasks[1].pos2} :
          /\ tasks[1].pre[p.row][p.col].special = "RAINBOW"
          /\ tasks[1].pre[q.row][q.col].special = "NONE"

\* The first pass of the turn of such a swap.
WildcardPass ==
    /\ tasks # <<>> /\ tasks[1].pc = "special" /\ tasks[1].origin = "rainbow"
    /\ last' = "specialResolve"

\* The identifiers of the cells the n-th special expanded by a pass on the
\* board b blasts; det lists the expanded specials, rnd is the seed of the
\* draws of an expanded RAINBOW.
BlastOfNth(b, det, rnd, n) ==
    SeqIds(getSpecialBlastTargets(b, CellById(b, det[n]), RainbowDraws(rnd, n - 1)))

\* C37: a swap of a wildcard with a cell without special is always valid:
\* it takes one move, and the first pass clears the wildcard, the swapped
\* cell and every cell of the swapped cell's type; a cell of another type
\* is cleared by that pass only if it lies in a natural run or in the blast
\* set of a special the pass expands.
C37_WildcardSwapClearsType ==
    [][ /\ WildcardSwapDue => (last' = "swapRainbow" /\ movesLeft' = movesLeft - 1)
        /\ WildcardPass =>
              \A w \in {SwappedWildcard} : \A o \in {SwappedOther} : \A pb \in {PassBoard} :
                  /\ \A r \in Rows, c \in Cols :
                        (pb[r][c].id \in {w.id, o.id} \/ pb[r][c].type = o.type)
                            => (board'[r][c].id = pb[r][c].id /\ board'[r][c].status = "MATCHED")
                  /\ \E rnd \in DrawSeeds(pb) : \A det \in {DetonatedOfPass(pb, rnd)} :
                     \A runs \in {RunCellIds(pb)} :
                        \A r \in Rows, c \in Cols :
                            (board'[r][c].status = "MATCHED" /\ pb[r][c].type # o.type
                                /\ pb[r][c].id # w.id)
                            => \/ pb[r][c].id \in runs
                               \/ \E n \in 1 .. Len(det) : pb[r][c].id \in BlastOfNth(pb, det, rnd, n)
                  /\ movesLeft' = movesLeft ]_vars

\* C37 (amended): a swap of a wildcard with a cell without special is
\* always valid and takes one move; the first pass clears the wildcard, the
\* swapped cell and every cell of the swapped cell's type, except a cell
\* the pass chooses as the new special of a run of four or more that the
\* swap has completed: that cell gets status CREATED and stays.  A cell of
\* another type is cleared by that pass only if it lies in a natural run
\* or in the blast set of a special the pass expands.
C37_WildcardSwapClearsTypeOrCreates ==
    [][ /\ WildcardSwapDue => (last' = "swapRainbow" /\ movesLeft' = movesLeft - 1)
        /\ WildcardPass =>
              \A w \in {SwappedWildcard} : \A o \in {SwappedOther} : \A pb \in {PassBoard} :
                  /\ \A chosen \in {ChosenIds} : \A r \in Rows, c \in Cols :
                        (pb[r][c].id \in {w.id, o.id} \/ pb[r][c].type = o.type)
                            => /\ board'[r][c].id = pb[r][c].id
                               /\ board'[r][c].status =
                                     IF pb[r][c].id \in chosen THEN "CREATED" ELSE "MATCHED"
                  /\ \E rnd \in DrawSeeds(pb) : \A det \in {DetonatedOfPass(pb, rnd)} :
                     \A runs \in {RunCellIds(pb)} :
                        \A r \in Rows, c \in Cols :
                            (board'[r][c].status = "MATCHED" /\ pb[r][c].type # o.type
                                /\ pb[r][c].id # w.id)
                            => \/ pb[r][c].id \in runs
                               \/ \E n \in 1 .. Len(det) : pb[r][c].id \in BlastOfNth(pb, det, rnd, n)
                  /\ movesLeft' = movesLeft ]_vars

\* A wildcard was swapped with a cell without special and the first pass
\* has cleared the wildcard and all cells of one type but the one, in a
\* row of four, that it has made a special.
C37_Witness ==
    /\ last = "specialResolve"
    /\ tasks # <<>> /\ tasks[Len(tasks)].origin = "rainbow"
    /\ \E r \in Rows, c \in Cols :
          board[r][c].special = "RAINBOW" /\ board[r][c].status = "MATCHED"
    /\ \E q \in Rows \X Cols :
          /\ board[q[1]][q[2]].status = "CREATED"
          /\ board[q[1]][q[2]].special \in {"ROW_BLAST", "COL_BLAST"}
          /\ Cardinality({ x \in Rows \X Cols :
                              /\ board[x[1]][x[2]].type = board[q[1]][q[2]].type
                              /\ board[x[1]][x[2]].status = "MATCHED" }) >= 10
          /\ \A x \in Rows \X Cols :
                (board[x[1]][x[2]].type = board[q[1]][q[2]].type /\ x # q)
                    => board[x[1]][x[2]].status = "MATCHED"
    /\ \E x \in Rows \X Cols : board[x[1]][x[2]].status = "IDLE"

\* C38: whenever the phase is PLAYING and the processing flag is clear, the
\* committed board is at rest: every cell IDLE and no run of three or more
\* cells of one type.
C38_IdleBoardAtRest ==
    (gamePhase = "PLAYING" /\ ~isProcessing) =>
        /\ \A r \in Rows, c \in Cols : board[r][c].status = "IDLE"
        /\ RunCellIds(board) = {}

\* C39: on every committed board the cell stored at slot (r, c) has row r
\* and col c, and no identifier occurs in two slots (the identifiers of
\* refilled cells being fresh); so it is after swaps, reverts, clearing,
\* gravity and settle.
C39_CellsKnowTheirSlot ==
    DOMAIN board # {} =>
        /\ \A r \in Rows, c \in Cols : board[r][c].row = r /\ board[r][c].col = c
        /\ Cardinality(BoardIds(board)) = GRID_ROWS * GRID_COLS

\* Gravity has just been applied to the cleared board of a pass: the
\* dropped board is committed, a surviving cell has fallen to a lower row
\* and a refilled cell waits above the grid.
C39_Witness ==
    /\ last = "dropped"
    /\ tasks # <<>> /\ tasks[Len(tasks)].pc = "drop"
    /\ \E r \in Rows, c \in Cols :
          /\ board[r][c].status = "DROPPING" /\ board[r][c].visualRow >= 0
          /\ board[r][c].visualRow < board[r][c].row
    /\ \E r \in Rows, c \in Cols : board[r][c].visualRow < 0

====
